---- MODULE Spec2Model ----
(***************************************************************************)
(* The invoice pipeline orchestrator, InvoicePipeline.run() and            *)
(* InvoicePipeline._process_single() of src/src/pipeline.py, with the      *)
(* collaborators it is given (mailbox, extractor, validator, store,        *)
(* notifier).  One behaviour of the model is one call of run(); the        *)
(* position inside run() is pc.  A collaborator call is a nondeterministic *)
(* choice among the outcomes that call can have: a normal return, or an    *)
(* exception of one of the kinds the except clauses tell apart.            *)
(*                                                                         *)
(* Spec is the specification of run().  SpecRetry is the specification of  *)
(* the retry decorator of src/src/retry.py: one behaviour is one call of   *)
(* the wrapper of a decorated function, at position rpc; SpecRetryFair     *)
(* adds the fairness under which the wrapper's termination is checked.     *)
(* SpecValidator is the specification of InvoiceValidator.validate() of    *)
(* src/src/validator.py and of a ValidationResult on its own, SpecParser   *)
(* that of PDFParser.parse() of src/src/pdf_parser.py and of the           *)
(* InvoiceData constructor, and SpecShared that of two runs which check    *)
(* and insert into one invoices table.  Each specification holds the       *)
(* others' variables constant.                                             *)
(***************************************************************************)
EXTENDS Integers, Sequences, FiniteSets, TLC

\* Longest batch fetch_invoice_emails() returns in the model.
MaxBatch == 2

\* Invoice numbers the extractor can produce.
InvoiceNumbers == {"INV-1", "INV-2"}

\* ProcessingStatus (src/src/models.py)
PENDING == "pending"
FETCHED == "fetched"
PARSED == "parsed"
VALIDATED == "validated"
VALIDATION_FAILED == "validation_failed"
STORED == "stored"
NOTIFIED == "notified"
FAILED == "failed"
DUPLICATE == "duplicate"

ProcessingStatus ==
    {PENDING, FETCHED, PARSED, VALIDATED, VALIDATION_FAILED,
     STORED, NOTIFIED, FAILED, DUPLICATE}

\* ProcessingResult.is_success
IsSuccess(r) == r.status \in {STORED, NOTIFIED}

\* ProcessingResult.is_terminal
IsTerminal(r) ==
    r.status \in {STORED, NOTIFIED, FAILED, VALIDATION_FAILED, DUPLICATE}

\* Exception kinds the except clauses of the pipeline tell apart; "Exception"
\* stands for every kind that is none of the others (ValueError, TypeError...).
PDFExtractionError == "PDFExtractionError"
DatabaseError == "DatabaseError"
RetryExhaustedError == "RetryExhaustedError"
NotificationError == "NotificationError"
EmailConnectionError == "EmailConnectionError"
OtherException == "Exception"

Exc(kind, text) == [kind |-> kind, text |-> text]

\* The python None for optional string fields.
None == "None"

VARIABLES
    pc,               \* position in run() / _process_single()
    raised_at,        \* where the exception that left run() came from
    dry_run,          \* InvoicePipeline._dry_run
    store,            \* invoice numbers in the invoices table
    seen,             \* UIDs flagged \Seen in the mailbox
    connection,       \* EmailMonitor._connection: "None" or "open"
    engine,           \* DatabaseLoader._engine: "None" or "open"
    attachments,      \* the fetched batch
    idx,              \* number of the attachment being processed
    result,           \* the ProcessingResult of the attachment being processed
    results,          \* run()'s results list
    validation_result,\* _process_single's local: <<>> or << verdict >>
    exc,              \* the exception caught or in flight: <<>> or <<e>>
    calls,            \* collaborator calls made for the current attachment
    summaries,        \* number of notify_summary calls
    exit_code         \* <<>> or <<the exit code main() returned>>

\* The retry decorator (src/retry.py): its arguments, the locals of wrapper and
\* what one call of wrapper did.
VARIABLES
    max_attempts,         \* retry(max_attempts=...)
    base_delay,           \* retry(base_delay=...)
    max_delay,            \* retry(max_delay=...)
    exponential_base,     \* retry(exponential_base=...)
    retryable_exceptions, \* retry(retryable_exceptions=...): exception kinds
    on_retry,             \* TRUE when retry(on_retry=...) is not None
    rpc,                  \* position in wrapper()
    attempt,              \* the loop variable of wrapper
    last_exception,       \* wrapper's local: <<>> (None) or <<e>>
    jittered_delay,       \* wrapper's local, in hundredths of a second
    events,               \* invocations, observer calls and sleeps, in order
    returned,             \* <<>> or <<value returned by wrapper>>
    raised                \* <<>> or <<exception that left wrapper>>

\* InvoiceValidator (src/validator.py): its reference sets, the argument and
\* the local of one call of validate(), or a ValidationResult on its own.
VARIABLES
    vpc,                  \* position in validate(), or "free" outside it
    invoice,              \* the InvoiceData given to validate()
    valid_po_numbers,     \* InvoiceValidator._valid_po_numbers
    approved_vendors,     \* InvoiceValidator._approved_vendors
    verdict,              \* the ValidationResult under construction
    verdicts              \* the ValidationResults earlier calls returned

\* PDFParser.parse (src/pdf_parser.py) and the InvoiceData constructor
\* (src/models.py).
VARIABLES
    ppc,                  \* position in parse(), or "construct" outside it
    document,             \* what the patterns find in the PDF given to parse()
    fields,               \* arguments of a direct InvoiceData(...) call
    parsed,               \* <<>> or <<the InvoiceData constructed>>
    perr                  \* <<>> or <<the exception that left the call>>

\* Two runs of the pipeline at work on one database (src/database.py).
VARIABLES
    invoices_table,       \* the rows of the invoices table
    audit_log_table,      \* the rows of the invoice_audit_log table
    runs                  \* per run: its position, its invoice and its status

pipeline_vars ==
    <<pc, raised_at, dry_run, store, seen, connection, engine, attachments,
      idx, result, results, validation_result, exc, calls, summaries>>

retry_config ==
    <<max_attempts, base_delay, max_delay, exponential_base,
      retryable_exceptions, on_retry>>

retry_vars ==
    <<retry_config, rpc, attempt, last_exception, jittered_delay, events,
      returned, raised>>

validator_vars ==
    <<vpc, invoice, valid_po_numbers, approved_vendors, verdict, verdicts>>

\* What a step of run() leaves alone, and what a step of the retry wrapper,
\* of the validator and of the parser leave alone.
parser_vars == <<ppc, document, fields, parsed, perr>>

shared_vars == <<invoices_table, audit_log_table, runs>>

pipeline_frame ==
    <<retry_vars, validator_vars, parser_vars, shared_vars, exit_code>>

retry_frame ==
    <<pipeline_vars, validator_vars, parser_vars, shared_vars, exit_code>>

validator_frame ==
    <<pipeline_vars, retry_vars, parser_vars, shared_vars, exit_code>>

parser_frame ==
    <<pipeline_vars, retry_vars, validator_vars, shared_vars, exit_code>>

shared_frame ==
    <<pipeline_vars, retry_vars, validator_vars, parser_vars, exit_code>>

vars ==
    <<pipeline_vars, retry_vars, validator_vars, parser_vars, shared_vars,
      exit_code>>

\* A collaborator call: the operation, its argument and its outcome.
Call(op, arg, res) == [op |-> op, arg |-> arg, res |-> res]

\* EmailAttachment: the filename tells the attachments of a batch apart, the
\* UID is that of the message it came from.
FileName(i) == "invoice" \o ToString(i) \o ".pdf"

Attachment(i, uid) == [filename |-> FileName(i), email_uid |-> uid]

\* fetch_invoice_emails extends the list message by message, so the UIDs of a
\* batch are grouped: each attachment belongs to the message of the one before
\* it or to the next message.
Batches ==
    UNION {
      { [i \in 1..n |-> Attachment(i, u[i])] :
          u \in { f \in [1..n -> 1..n] :
                    /\ n > 0 => f[1] = 1
                    /\ \A i \in 1..(n - 1) : f[i + 1] \in {f[i], f[i] + 1} } }
      : n \in 0..MaxBatch }

\* datetime.now(timezone.utc), read for an attachment whose completion
\* timestamp is previous (0: None): the first reading is tick 1, a later
\* reading is the same tick or the next one.
Now(previous) == IF previous = 0 THEN {1} ELSE {previous, previous + 1}

\* ProcessingResult(attachment=attachment, ...): the dataclass defaults; a
\* processing_completed_at of 0 is None.
NewResult(attachment) ==
    [attachment |-> attachment,
     status |-> PENDING,
     invoice_data |-> None,
     validation_errors |-> <<>>,
     error_message |-> None,
     processing_completed_at |-> 0]

NoAttachment == [filename |-> None, email_uid |-> 0]

\* The parser given to run() is a collaborator whose errors are ParseErrors:
\* the state of a parse() call plays no part in the other specifications.
ParserUnused ==
    /\ ppc = "unused"
    /\ document = <<>>
    /\ fields = <<>>
    /\ parsed = <<>>
    /\ perr = <<>>

\* One run has the database to itself in Spec: store holds its invoice
\* numbers, and the rows two runs share play no part elsewhere.
SharedUnused ==
    /\ invoices_table = {}
    /\ audit_log_table = {}
    /\ runs = <<>>

\* The validator given to run() is a collaborator whose verdicts are Verdicts:
\* the state of InvoiceValidator plays no part in Spec and SpecRetry.
ValidatorUnused ==
    /\ vpc = "unused"
    /\ invoice = <<>>
    /\ valid_po_numbers = {}
    /\ approved_vendors = {}
    /\ verdict = <<>>
    /\ verdicts = <<>>

\* No retry-wrapped function takes part in run(): the collaborators are
\* injected, and a RetryExhaustedError of theirs is one of StoreErrors.
RetryUnused ==
    /\ max_attempts = 0
    /\ base_delay = 0
    /\ max_delay = 0
    /\ exponential_base = 0
    /\ retryable_exceptions = {}
    /\ on_retry = FALSE
    /\ rpc = "unused"
    /\ attempt = 0
    /\ last_exception = <<>>
    /\ jittered_delay = 0
    /\ events = <<>>
    /\ returned = <<>>
    /\ raised = <<>>

Init ==
    /\ pc = "start"
    /\ raised_at = "none"
    /\ dry_run \in BOOLEAN
    /\ store \in SUBSET InvoiceNumbers
    /\ seen = {}
    /\ connection = "None"
    /\ engine = "None"
    /\ attachments = <<>>
    /\ idx = 0
    /\ result = NewResult(NoAttachment)
    /\ results = <<>>
    /\ validation_result = <<>>
    /\ exc = <<>>
    /\ calls = <<>>
    /\ summaries = 0
    /\ exit_code = <<>>
    /\ RetryUnused
    /\ ValidatorUnused
    /\ ParserUnused
    /\ SharedUnused

----------------------------------------------------------------------------
\* EmailMonitor.connect: IMAP4_SSL() may fail before _connection is assigned,
\* login()/select() after it.
ConnectOutcomes == {"ok", "socket_error", "login_error"}

\* _connection after connect() with outcome c, from connection value conn.
ConnectionAfterConnect(conn, c) ==
    IF c = "socket_error" THEN conn ELSE "open"

\* with self._email_monitor as monitor: attachments = monitor.fetch_invoice_emails()
\* followed by the empty-batch return of run().
FetchBatch ==
    /\ pc = "start"
    /\ \E c \in ConnectOutcomes :
         IF c # "ok"
         THEN \* __enter__ raised EmailConnectionError: __exit__ does not run
              /\ connection' = ConnectionAfterConnect(connection, c)
              /\ exc' = <<Exc(EmailConnectionError, "Failed to connect to email server")>>
              /\ pc' = "raised"
              /\ raised_at' = "fetch"
              /\ UNCHANGED attachments
         ELSE \* __exit__ runs disconnect() on both exits of the block
              /\ connection' = "None"
              /\ \/ /\ exc' = <<Exc(EmailConnectionError, "Failed to fetch emails")>>
                    /\ pc' = "raised"
                    /\ raised_at' = "fetch"
                    /\ UNCHANGED attachments
                 \/ \E b \in Batches :
                      /\ attachments' = b
                      /\ pc' = IF b = <<>> THEN "returned" ELSE "open_store"
                      /\ UNCHANGED <<exc, raised_at>>
    /\ UNCHANGED <<dry_run, store, seen, engine, idx, result, results,
                   validation_result, calls, summaries>>

\* with self._db_loader as db: DatabaseLoader.connect() creates the engine or
\* raises DatabaseError, which leaves run().
OpenStore ==
    /\ pc = "open_store"
    /\ \/ /\ engine' = "open"
          /\ pc' = "item"
          /\ UNCHANGED <<exc, raised_at>>
       \/ /\ exc' = <<Exc(DatabaseError, "Failed to create database engine")>>
          /\ pc' = "raised"
          /\ raised_at' = "store_connect"
          /\ UNCHANGED engine
    /\ UNCHANGED <<dry_run, store, seen, connection, attachments, idx, result,
                   results, validation_result, calls, summaries>>

----------------------------------------------------------------------------
\* Outcomes of the collaborator calls of _process_single.

\* PDFParser.parse: an invoice record, PDFExtractionError, or another error
\* (InvoiceData.__post_init__ raises ValueError).
ParseErrors ==
    {Exc(PDFExtractionError, "No text extracted from PDF"),
     Exc(OtherException, "Invoice total must be positive")}

\* InvoiceValidator.validate: the verdicts (is_valid is false exactly when
\* add_error was called) or an error.
Verdicts ==
    {[is_valid |-> TRUE, errors |-> <<>>],
     [is_valid |-> FALSE, errors |-> <<"Amount exceeds maximum">>],
     [is_valid |-> FALSE,
      errors |-> <<"Invalid invoice number format", "Line items sum does not match">>]}

ValidateErrors == {Exc(OtherException, "validator crashed")}

\* DatabaseLoader.check_duplicate / insert_invoice: DatabaseError, the
\* RetryExhaustedError of a retry-wrapped loader, or another error.
StoreErrors(what) ==
    {Exc(DatabaseError, "Failed to " \o what),
     Exc(RetryExhaustedError, "All 3 attempts exhausted for " \o what),
     Exc(OtherException, what \o " crashed")}

\* SlackNotifier.notify_*: returns, raises NotificationError, or another error.
NotifierOutcomes == {"ok", NotificationError, OtherException}

NotifierExc(o) == Exc(o, "notifier: " \o o)

\* except NotificationError: the only kind _notify_success, _notify_failure
\* and _send_summary swallow.
NotifierSwallowed(o) == o = NotificationError

\* mark_as_processed: returns, raises EmailConnectionError, or another error.
MarkOutcomes == {"ok", EmailConnectionError, OtherException}

\* "; ".join(errors)
RECURSIVE JoinErrors(_)
JoinErrors(errors) ==
    IF errors = <<>> THEN ""
    ELSE IF Len(errors) = 1 THEN errors[1]
    ELSE errors[1] \o "; " \o JoinErrors(Tail(errors))

\* HandleException with the catch-all clause tried first.
HandleException_CatchAllFirst(e) ==
    [status |-> FAILED,
     error_message |-> "Unexpected error: " \o e.text,
     notify |-> FALSE]

\* HandleException with the failure report of the extraction error sent in
\* dry-run mode too.
HandleException_NotifyAlways(e) ==
    IF e.kind = PDFExtractionError
    THEN [status |-> FAILED, error_message |-> e.text, notify |-> TRUE]
    ELSE IF e.kind \in {DatabaseError, RetryExhaustedError}
    THEN [status |-> FAILED, error_message |-> e.text, notify |-> FALSE]
    ELSE [status |-> FAILED,
          error_message |-> "Unexpected error: " \o e.text,
          notify |-> FALSE]

\* The three except clauses of _process_single for an exception e raised inside
\* the try block: the status and message they set, and whether the clause
\* sends a failure report.
HandleException(e) ==
    IF e.kind = PDFExtractionError
    THEN [status |-> FAILED, error_message |-> e.text, notify |-> ~dry_run]
    ELSE IF e.kind \in {DatabaseError, RetryExhaustedError}
    THEN [status |-> FAILED, error_message |-> e.text, notify |-> FALSE]
    ELSE [status |-> FAILED,
          error_message |-> "Unexpected error: " \o e.text,
          notify |-> FALSE]

\* The try block raised e: the matching except clause runs.
Caught(e) ==
    LET h == HandleException(e) IN
    /\ exc' = <<e>>
    /\ result' = [result EXCEPT !.status = h.status,
                                !.error_message = h.error_message]
    /\ pc' = IF h.notify THEN "except_notify_failure" ELSE "finally"

\* result = ProcessingResult(attachment=attachment, ...)
CreateResult ==
    /\ pc = "item"
    /\ idx < Len(attachments)
    /\ idx' = idx + 1
    /\ result' = NewResult(attachments[idx + 1])
    /\ validation_result' = <<>>
    /\ exc' = <<>>
    /\ calls' = <<>>
    /\ pc' = "try"
    /\ UNCHANGED <<raised_at, dry_run, store, seen, connection, engine,
                   attachments, results, summaries>>

\* SetFetched recording the stage that follows instead.
SetFetched_Parsed ==
    /\ pc = "try"
    /\ result' = [result EXCEPT !.status = PARSED]
    /\ pc' = "parse"
    /\ UNCHANGED <<raised_at, dry_run, store, seen, connection, engine,
                   attachments, idx, results, validation_result, exc, calls,
                   summaries>>

\* result.status = ProcessingStatus.FETCHED
SetFetched ==
    /\ pc = "try"
    /\ result' = [result EXCEPT !.status = FETCHED]
    /\ pc' = "parse"
    /\ UNCHANGED <<raised_at, dry_run, store, seen, connection, engine,
                   attachments, idx, results, validation_result, exc, calls,
                   summaries>>

\* Stage 1: invoice_data = self._pdf_parser.parse(...)
Parse ==
    /\ pc = "parse"
    /\ \/ \E n \in InvoiceNumbers :
            /\ calls' = Append(calls, Call("parse", result.attachment.filename, "ok"))
            /\ result' = [result EXCEPT !.invoice_data = n, !.status = PARSED]
            /\ pc' = "validate"
            /\ UNCHANGED exc
       \/ \E e \in ParseErrors :
            /\ calls' = Append(calls, Call("parse", result.attachment.filename, e.kind))
            /\ Caught(e)
    /\ UNCHANGED <<raised_at, dry_run, store, seen, connection, engine,
                   attachments, idx, results, validation_result, summaries>>

\* Validate with the store branch taken in dry-run mode too.
Validate_IgnoresDryRun ==
    /\ pc = "validate"
    /\ \/ \E v \in Verdicts :
            /\ calls' = Append(calls, Call("validate", result.invoice_data, "ok"))
            /\ validation_result' = <<v>>
            /\ IF ~v.is_valid
               THEN /\ result' = [result EXCEPT
                                    !.status = VALIDATION_FAILED,
                                    !.validation_errors = v.errors,
                                    !.error_message = JoinErrors(v.errors)]
                    /\ pc' = IF ~dry_run THEN "notify_failure" ELSE "return"
               ELSE /\ result' = [result EXCEPT !.status = VALIDATED]
                    /\ pc' = "check_duplicate"
            /\ UNCHANGED exc
       \/ \E e \in ValidateErrors :
            /\ calls' = Append(calls, Call("validate", result.invoice_data, e.kind))
            /\ Caught(e)
            /\ UNCHANGED validation_result
    /\ UNCHANGED <<raised_at, dry_run, store, seen, connection, engine,
                   attachments, idx, results, summaries>>

\* Validate with the completion timestamp of an invalid verdict set before
\* the failure report instead of after it.
Validate_StampsEarly ==
    /\ pc = "validate"
    /\ \/ \E v \in Verdicts :
            /\ calls' = Append(calls, Call("validate", result.invoice_data, "ok"))
            /\ validation_result' = <<v>>
            /\ IF ~v.is_valid
               THEN /\ result' = [result EXCEPT
                                    !.status = VALIDATION_FAILED,
                                    !.validation_errors = v.errors,
                                    !.error_message = JoinErrors(v.errors),
                                    !.processing_completed_at = 1]
                    /\ pc' = IF ~dry_run THEN "notify_failure" ELSE "return"
               ELSE /\ result' = [result EXCEPT !.status = VALIDATED]
                    /\ pc' = IF ~dry_run THEN "check_duplicate" ELSE "dry_run_store"
            /\ UNCHANGED exc
       \/ \E e \in ValidateErrors :
            /\ calls' = Append(calls, Call("validate", result.invoice_data, e.kind))
            /\ Caught(e)
            /\ UNCHANGED validation_result
    /\ UNCHANGED <<raised_at, dry_run, store, seen, connection, engine,
                   attachments, idx, results, summaries>>

\* Stage 2: validation_result = self._validator.validate(invoice_data) and the
\* assignments that follow it, up to the failure report.
Validate ==
    /\ pc = "validate"
    /\ \/ \E v \in Verdicts :
            /\ calls' = Append(calls, Call("validate", result.invoice_data, "ok"))
            /\ validation_result' = <<v>>
            /\ IF ~v.is_valid
               THEN /\ result' = [result EXCEPT
                                    !.status = VALIDATION_FAILED,
                                    !.validation_errors = v.errors,
                                    !.error_message = JoinErrors(v.errors)]
                    /\ pc' = IF ~dry_run THEN "notify_failure" ELSE "return"
               ELSE /\ result' = [result EXCEPT !.status = VALIDATED]
                    /\ pc' = IF ~dry_run THEN "check_duplicate" ELSE "dry_run_store"
            /\ UNCHANGED exc
       \/ \E e \in ValidateErrors :
            /\ calls' = Append(calls, Call("validate", result.invoice_data, e.kind))
            /\ Caught(e)
            /\ UNCHANGED validation_result
    /\ UNCHANGED <<raised_at, dry_run, store, seen, connection, engine,
                   attachments, idx, results, summaries>>

\* self._notify_failure(attachment, result.error_message) of the invalid
\* verdict branch, inside the try block.
NotifyFailure ==
    /\ pc = "notify_failure"
    /\ \E o \in NotifierOutcomes :
         /\ calls' = Append(calls, Call("notify_failure", result.attachment.filename, o))
         /\ IF o = "ok" \/ NotifierSwallowed(o)
            THEN /\ pc' = "return"
                 /\ UNCHANGED <<result, exc>>
            ELSE Caught(NotifierExc(o))
    /\ UNCHANGED <<raised_at, dry_run, store, seen, connection, engine,
                   attachments, idx, results, validation_result, summaries>>

\* result.processing_completed_at = ...; return result (the early returns of
\* the invalid verdict and of the duplicate).
Return ==
    /\ pc = "return"
    /\ \E t \in Now(result.processing_completed_at) :
         result' = [result EXCEPT !.processing_completed_at = t]
    /\ pc' = "finally"
    /\ UNCHANGED <<raised_at, dry_run, store, seen, connection, engine,
                   attachments, idx, results, validation_result, exc, calls,
                   summaries>>

\* CheckDuplicate with the result of the check ignored: the insert follows.
CheckDuplicate_Ignored ==
    /\ pc = "check_duplicate"
    /\ \/ /\ engine = "open"
          /\ calls' = Append(calls, Call("check_duplicate", result.invoice_data,
                                         ToString(result.invoice_data \in store)))
          /\ pc' = "insert_invoice"
          /\ UNCHANGED <<result, exc>>
       \/ \E e \in StoreErrors("check for duplicate") :
            /\ calls' = Append(calls, Call("check_duplicate", result.invoice_data, e.kind))
            /\ Caught(e)
    /\ UNCHANGED <<raised_at, dry_run, store, seen, connection, engine,
                   attachments, idx, results, validation_result, summaries>>

\* CheckDuplicate with the duplicate reported like a rejected invoice.
CheckDuplicate_Reported ==
    /\ pc = "check_duplicate"
    /\ \/ /\ engine = "open"
          /\ LET dup == result.invoice_data \in store IN
             /\ calls' = Append(calls, Call("check_duplicate", result.invoice_data, ToString(dup)))
             /\ IF dup
                THEN /\ result' = [result EXCEPT
                                     !.status = DUPLICATE,
                                     !.error_message =
                                         "Duplicate invoice: " \o result.invoice_data]
                     /\ pc' = "notify_failure"
                ELSE /\ pc' = "insert_invoice"
                     /\ UNCHANGED result
          /\ UNCHANGED exc
       \/ \E e \in StoreErrors("check for duplicate") :
            /\ calls' = Append(calls, Call("check_duplicate", result.invoice_data, e.kind))
            /\ Caught(e)
    /\ UNCHANGED <<raised_at, dry_run, store, seen, connection, engine,
                   attachments, idx, results, validation_result, summaries>>

\* Stage 3: if db.check_duplicate(invoice_data.invoice_number): ... return result
CheckDuplicate ==
    /\ pc = "check_duplicate"
    /\ \/ /\ engine = "open"
          /\ LET dup == result.invoice_data \in store IN
             /\ calls' = Append(calls, Call("check_duplicate", result.invoice_data, ToString(dup)))
             /\ IF dup
                THEN /\ result' = [result EXCEPT
                                     !.status = DUPLICATE,
                                     !.error_message =
                                         "Duplicate invoice: " \o result.invoice_data]
                     /\ pc' = "return"
                ELSE /\ pc' = "insert_invoice"
                     /\ UNCHANGED result
          /\ UNCHANGED exc
       \/ \E e \in StoreErrors("check for duplicate") :
            /\ calls' = Append(calls, Call("check_duplicate", result.invoice_data, e.kind))
            /\ Caught(e)
    /\ UNCHANGED <<raised_at, dry_run, store, seen, connection, engine,
                   attachments, idx, results, validation_result, summaries>>

\* db.insert_invoice(...); result.status = ProcessingStatus.STORED.  The
\* invoice_number column is unique: inserting a stored number fails.
InsertInvoice ==
    /\ pc = "insert_invoice"
    /\ \/ /\ engine = "open"
          /\ result.invoice_data \notin store
          /\ calls' = Append(calls, Call("insert_invoice", result.invoice_data, "ok"))
          /\ store' = store \cup {result.invoice_data}
          /\ result' = [result EXCEPT !.status = STORED]
          /\ pc' = "notify_success"
          /\ UNCHANGED exc
       \/ \E e \in StoreErrors("insert invoice") :
            /\ calls' = Append(calls, Call("insert_invoice", result.invoice_data, e.kind))
            /\ Caught(e)
            /\ UNCHANGED store
    /\ UNCHANGED <<raised_at, dry_run, seen, connection, engine, attachments,
                   idx, results, validation_result, summaries>>

\* Stage 4: if self._notify_success(invoice_data): result.status = NOTIFIED
NotifySuccess ==
    /\ pc = "notify_success"
    /\ \E o \in NotifierOutcomes :
         /\ calls' = Append(calls, Call("notify_success", result.invoice_data, o))
         /\ IF o = "ok"
            THEN /\ result' = [result EXCEPT !.status = NOTIFIED]
                 /\ pc' = "mark_as_processed"
                 /\ UNCHANGED exc
            ELSE IF NotifierSwallowed(o)
            THEN /\ pc' = "mark_as_processed"
                 /\ UNCHANGED <<result, exc>>
            ELSE Caught(NotifierExc(o))
    /\ UNCHANGED <<raised_at, dry_run, store, seen, connection, engine,
                   attachments, idx, results, validation_result, summaries>>

\* DryRunStore without the status assignment.
DryRunStore_NoStatus ==
    /\ pc = "dry_run_store"
    /\ pc' = "mark_as_processed"
    /\ UNCHANGED <<raised_at, dry_run, store, seen, connection, engine,
                   attachments, idx, result, results, validation_result, exc,
                   calls, summaries>>

\* else: result.status = ProcessingStatus.STORED   ([DRY RUN] Would store)
DryRunStore ==
    /\ pc = "dry_run_store"
    /\ result' = [result EXCEPT !.status = STORED]
    /\ pc' = "mark_as_processed"
    /\ UNCHANGED <<raised_at, dry_run, store, seen, connection, engine,
                   attachments, idx, results, validation_result, exc, calls,
                   summaries>>

\* MarkProcessed without its own try/except: a failure reaches the except
\* clauses of _process_single.
MarkProcessed_Unswallowed ==
    /\ pc = "mark_as_processed"
    /\ \E c \in ConnectOutcomes :
         IF c # "ok"
         THEN /\ connection' = ConnectionAfterConnect(connection, c)
              /\ calls' = Append(calls, Call("connect", "", c))
              /\ Caught(Exc(EmailConnectionError, "IMAP connection failed"))
              /\ UNCHANGED seen
         ELSE \E m \in MarkOutcomes :
              /\ connection' = "None"
              /\ calls' = Append(calls, Call("mark_as_processed",
                                     ToString(result.attachment.email_uid), m))
              /\ IF m = "ok"
                 THEN /\ seen' = seen \cup {result.attachment.email_uid}
                      /\ pc' = "finally"
                      /\ UNCHANGED <<result, exc>>
                 ELSE /\ Caught(Exc(m, "mark_as_processed failed"))
                      /\ UNCHANGED seen
    /\ UNCHANGED <<raised_at, dry_run, store, engine, attachments, idx,
                   results, validation_result, summaries>>

\* with self._email_monitor as monitor: monitor.mark_as_processed(uid), every
\* Exception swallowed.
MarkProcessed ==
    /\ pc = "mark_as_processed"
    /\ \E c \in ConnectOutcomes :
         IF c # "ok"
         THEN /\ connection' = ConnectionAfterConnect(connection, c)
              /\ calls' = Append(calls, Call("connect", "", c))
              /\ UNCHANGED seen
         ELSE \E m \in MarkOutcomes :
              /\ connection' = "None"
              /\ calls' = Append(calls, Call("mark_as_processed",
                                     ToString(result.attachment.email_uid), m))
              /\ seen' = IF m = "ok"
                         THEN seen \cup {result.attachment.email_uid}
                         ELSE seen
    /\ pc' = "finally"
    /\ UNCHANGED <<raised_at, dry_run, store, engine, attachments, idx, result,
                   results, validation_result, exc, summaries>>

\* self._notify_failure(attachment, str(exc)) inside the except
\* PDFExtractionError clause: an error it does not swallow is raised from
\* within the except clause, where no other clause of the try catches it.
ExceptNotifyFailure ==
    /\ pc = "except_notify_failure"
    /\ \E o \in NotifierOutcomes :
         /\ calls' = Append(calls, Call("notify_failure", result.attachment.filename, o))
         /\ IF o = "ok" \/ NotifierSwallowed(o)
            THEN /\ pc' = "finally"
                 /\ UNCHANGED exc
            ELSE /\ pc' = "finally_raising"
                 /\ exc' = <<NotifierExc(o)>>
    /\ UNCHANGED <<raised_at, dry_run, store, seen, connection, engine,
                   attachments, idx, result, results, validation_result,
                   summaries>>

\* finally: result.processing_completed_at = ...; then either return result
\* and results.append(result) in run(), or the exception in flight leaves
\* _process_single, the with block of the store (which disposes the engine)
\* and run().
Finally ==
    /\ pc \in {"finally", "finally_raising"}
    /\ \E t \in Now(result.processing_completed_at) :
         result' = [result EXCEPT !.processing_completed_at = t]
    /\ IF pc = "finally_raising"
       THEN /\ engine' = "None"
            /\ pc' = "raised"
            /\ raised_at' = "item"
            /\ UNCHANGED results
       ELSE /\ results' = Append(results, result')
            /\ UNCHANGED raised_at
            /\ IF idx = Len(attachments)
               THEN engine' = "None" /\ pc' = "summary"
               ELSE pc' = "item" /\ UNCHANGED engine
    /\ UNCHANGED <<dry_run, store, seen, connection, attachments, idx,
                   validation_result, exc, calls, summaries>>

\* self._send_summary(results) and the return of run().
SendSummary ==
    /\ pc = "summary"
    /\ IF dry_run \/ results = <<>>
       THEN /\ pc' = "returned"
            /\ UNCHANGED <<summaries, exc, raised_at>>
       ELSE \E o \in NotifierOutcomes :
            /\ summaries' = summaries + 1
            /\ IF o = "ok" \/ NotifierSwallowed(o)
               THEN /\ pc' = "returned"
                    /\ UNCHANGED <<exc, raised_at>>
               ELSE /\ pc' = "raised"
                    /\ raised_at' = "summary"
                    /\ exc' = <<NotifierExc(o)>>
    /\ UNCHANGED <<dry_run, store, seen, connection, engine, attachments, idx,
                   result, results, validation_result, calls>>

\* main() with an exit code of 1 when an item of the batch did not succeed.
Main_CountsFailures ==
    /\ pc \in {"returned", "raised"}
    /\ exit_code = <<>>
    /\ exit_code' =
          IF /\ pc = "returned"
             /\ \A k \in 1..Len(results) : results[k].status \in {STORED, NOTIFIED}
          THEN <<0>>
          ELSE <<1>>
    /\ UNCHANGED <<pipeline_vars, retry_vars, validator_vars, parser_vars,
                   shared_vars>>

\* scripts/run_pipeline.py, main(): try: results = pipeline.run(); return 0
\* except Exception: return 1.  Every error of the model is an Exception.
Main ==
    /\ pc \in {"returned", "raised"}
    /\ exit_code = <<>>
    /\ exit_code' = IF pc = "returned" THEN <<0>> ELSE <<1>>
    /\ UNCHANGED <<pipeline_vars, retry_vars, validator_vars, parser_vars,
                   shared_vars>>

Next ==
    \/ FetchBatch /\ UNCHANGED pipeline_frame
    \/ OpenStore /\ UNCHANGED pipeline_frame
    \/ CreateResult /\ UNCHANGED pipeline_frame
    \/ SetFetched /\ UNCHANGED pipeline_frame
    \/ Parse /\ UNCHANGED pipeline_frame
    \/ Validate /\ UNCHANGED pipeline_frame
    \/ NotifyFailure /\ UNCHANGED pipeline_frame
    \/ Return /\ UNCHANGED pipeline_frame
    \/ CheckDuplicate /\ UNCHANGED pipeline_frame
    \/ InsertInvoice /\ UNCHANGED pipeline_frame
    \/ NotifySuccess /\ UNCHANGED pipeline_frame
    \/ DryRunStore /\ UNCHANGED pipeline_frame
    \/ MarkProcessed /\ UNCHANGED pipeline_frame
    \/ ExceptNotifyFailure /\ UNCHANGED pipeline_frame
    \/ Finally /\ UNCHANGED pipeline_frame
    \/ SendSummary /\ UNCHANGED pipeline_frame
    \/ Main

Spec == Init /\ [][Next]_vars

----------------------------------------------------------------------------
\* The retry decorator of src/retry.py. One behaviour of SpecRetry is one call
\* of the wrapper of a function decorated with @retry(...).

MaxAttempts == 3

\* The values of max_attempts the decorator is built with; nothing in retry()
\* rejects zero or a negative number.
AttemptsConfigs == -1..MaxAttempts

\* base_delay, exponential_base and max_delay, in seconds.
BaseDelays == {1, 2}

ExponentialBases == {0, 1, 2}

MaxDelays == {3, 100}

ValueError == "ValueError"

TypeError == "TypeError"

AssertionError == "AssertionError"

\* retryable_exceptions: the default (Exception,) or one class.
RetryableConfigs == {{OtherException}, {ValueError}}

\* isinstance(e, cls) for the classes of the model: every error is an
\* Exception.
IsInstance(e, cls) == cls = OtherException \/ e.kind = cls

\* What the decorated function does when invoked: it returns a value or
\* raises.
FuncResults == {"a", "b"}

FuncErrors ==
    {Exc(ValueError, "temporary error"),
     Exc(ValueError, "permanent error"),
     Exc(TypeError, "wrong type")}

\* The on_retry callback returns or raises.
OnRetryOutcomes == {"ok", "raises"}

OnRetryError == Exc(OtherException, "on_retry failed")

\* random.uniform(0.5, 1.0), in percent.
JitterPercents == {50, 75, 100}

\* The assert statement is executed, or removed by python -O.
AssertModes == BOOLEAN

RECURSIVE Pow(_, _)
Pow(b, n) == IF n = 0 THEN 1 ELSE b * Pow(b, n - 1)

Min(a, b) == IF a <= b THEN a ELSE b

\* delay without the cap of max_delay.
delay_Uncapped(a) == base_delay * Pow(exponential_base, a - 1)

\* delay with the exponent of the attempt to come.
delay_NextExponent(a) == Min(base_delay * Pow(exponential_base, a), max_delay)

\* delay = min(base_delay * (exponential_base ** (attempt - 1)), max_delay)
delay(a) == Min(base_delay * Pow(exponential_base, a - 1), max_delay)

\* range(1, max_attempts + 1) with one more element.
InRange_OneMore(a) == a <= max_attempts + 1

\* a in range(1, max_attempts + 1), for a >= 1.
InRange(a) == a <= max_attempts

\* except Exception: every error is retried.
IsRetryable_Any(e) == TRUE

\* except retryable_exceptions as exc
IsRetryable(e) == \E cls \in retryable_exceptions : IsInstance(e, cls)

\* RetryExhaustedError(message=..., attempts=n, last_exception=last)
RetryExhausted(n, last) ==
    [kind |-> RetryExhaustedError,
     text |-> "All " \o ToString(n) \o " attempts exhausted for func",
     attempts |-> n,
     last_exception |-> last]

\* One thing wrapper did: an invocation of func ("func") with the value it
\* returned or the error it raised, a call of on_retry with its exc argument,
\* or a sleep with its duration in hundredths of a second.
Event(ev, a, value, e, d) ==
    [ev |-> ev, attempt |-> a, value |-> value, exc |-> e, delay |-> d]

\* The pipeline's state plays no part in a call of wrapper.
PipelineUnused ==
    /\ pc = "unused"
    /\ raised_at = "none"
    /\ dry_run = FALSE
    /\ store = {}
    /\ seen = {}
    /\ connection = "None"
    /\ engine = "None"
    /\ attachments = <<>>
    /\ idx = 0
    /\ result = NewResult(NoAttachment)
    /\ results = <<>>
    /\ validation_result = <<>>
    /\ exc = <<>>
    /\ calls = <<>>
    /\ summaries = 0
    /\ exit_code = <<>>

\* retry(...) was applied and wrapper is called: last_exception = None.
RetryInit ==
    /\ PipelineUnused
    /\ ValidatorUnused
    /\ ParserUnused
    /\ SharedUnused
    /\ max_attempts \in AttemptsConfigs
    /\ base_delay \in BaseDelays
    /\ max_delay \in MaxDelays
    /\ exponential_base \in ExponentialBases
    /\ retryable_exceptions \in RetryableConfigs
    /\ on_retry \in BOOLEAN
    /\ rpc = "for"
    /\ attempt = 0
    /\ last_exception = <<>>
    /\ jittered_delay = 0
    /\ events = <<>>
    /\ returned = <<>>
    /\ raised = <<>>

\* for attempt in range(1, max_attempts + 1): the next attempt, or the end of
\* the loop.
ForAttempt ==
    /\ rpc = "for"
    /\ IF InRange(attempt + 1)
       THEN attempt' = attempt + 1 /\ rpc' = "try"
       ELSE rpc' = "after_for" /\ UNCHANGED attempt
    /\ UNCHANGED <<retry_frame, retry_config, last_exception, jittered_delay,
                   events, returned, raised>>

\* try: return func(*args, **kwargs); except retryable_exceptions as exc: up
\* to the computation of jittered_delay. An error that no except clause
\* matches leaves wrapper.
Invoke ==
    /\ rpc = "try"
    /\ \/ \E v \in FuncResults :
            /\ events' = Append(events, Event("func", attempt, <<v>>, <<>>, 0))
            /\ returned' = <<v>>
            /\ rpc' = "returned"
            /\ UNCHANGED <<last_exception, jittered_delay, raised>>
       \/ \E e \in FuncErrors :
            /\ events' = Append(events, Event("func", attempt, <<>>, <<e>>, 0))
            /\ IF IsRetryable(e)
               THEN /\ last_exception' = <<e>>
                    /\ IF attempt = max_attempts
                       THEN rpc' = "after_for" /\ UNCHANGED jittered_delay
                       ELSE \E j \in JitterPercents :
                              /\ jittered_delay' = delay(attempt) * j
                              /\ rpc' = IF on_retry THEN "on_retry" ELSE "sleep"
                    /\ UNCHANGED raised
               ELSE /\ raised' = <<e>>
                    /\ rpc' = "raised"
                    /\ UNCHANGED <<last_exception, jittered_delay>>
            /\ UNCHANGED returned
    /\ UNCHANGED <<retry_frame, retry_config, attempt>>

\* OnRetry with the number of the attempt to come instead of the one that
\* failed.
OnRetry_NextAttempt ==
    /\ rpc = "on_retry"
    /\ events' = Append(events, Event("on_retry", attempt + 1, <<>>, last_exception, 0))
    /\ \E o \in OnRetryOutcomes :
         IF o = "ok"
         THEN rpc' = "sleep" /\ UNCHANGED raised
         ELSE rpc' = "raised" /\ raised' = <<OnRetryError>>
    /\ UNCHANGED <<retry_frame, retry_config, attempt, last_exception,
                   jittered_delay, returned>>

\* if on_retry is not None: on_retry(attempt, exc); an error of the callback
\* is raised inside the except clause and leaves wrapper.
OnRetry ==
    /\ rpc = "on_retry"
    /\ events' = Append(events, Event("on_retry", attempt, <<>>, last_exception, 0))
    /\ \E o \in OnRetryOutcomes :
         IF o = "ok"
         THEN rpc' = "sleep" /\ UNCHANGED raised
         ELSE rpc' = "raised" /\ raised' = <<OnRetryError>>
    /\ UNCHANGED <<retry_frame, retry_config, attempt, last_exception,
                   jittered_delay, returned>>

\* time.sleep(jittered_delay)
Sleep ==
    /\ rpc = "sleep"
    /\ events' = Append(events, Event("sleep", attempt, <<>>, <<>>, jittered_delay))
    /\ rpc' = "for"
    /\ UNCHANGED <<retry_frame, retry_config, attempt, last_exception,
                   jittered_delay, returned, raised>>

\* RaiseExhausted raising the last error itself.
RaiseExhausted_Raw ==
    /\ rpc = "after_for"
    /\ raised' = IF last_exception = <<>>
                 THEN <<Exc(AssertionError, "")>>
                 ELSE last_exception
    /\ rpc' = "raised"
    /\ UNCHANGED <<retry_frame, retry_config, attempt, last_exception,
                   jittered_delay, events, returned>>

\* assert last_exception is not None; raise RetryExhaustedError(...)
RaiseExhausted ==
    /\ rpc = "after_for"
    /\ IF last_exception = <<>>
       THEN \E checked \in AssertModes :
              raised' = IF checked
                        THEN <<Exc(AssertionError, "")>>
                        ELSE <<RetryExhausted(max_attempts, <<>>)>>
       ELSE raised' = <<RetryExhausted(max_attempts, last_exception)>>
    /\ rpc' = "raised"
    /\ UNCHANGED <<retry_frame, retry_config, attempt, last_exception,
                   jittered_delay, events, returned>>

RetryNext ==
    \/ ForAttempt
    \/ Invoke
    \/ OnRetry
    \/ Sleep
    \/ RaiseExhausted

SpecRetry == RetryInit /\ [][RetryNext]_vars

\* wrapper runs in one thread: a step that can be taken is taken.
SpecRetryFair == SpecRetry /\ WF_vars(RetryNext)

----------------------------------------------------------------------------
\* The rule validator of src/validator.py and the ValidationResult of
\* src/models.py. One behaviour of SpecValidator is one call of
\* InvoiceValidator.validate(invoice), or a sequence of add_error and
\* add_warning calls on a ValidationResult() of its own.  Amounts are in
\* thousandths of the currency unit, dates are day numbers with today = 0.

MaxItems == 2

MaxCalls == 3

\* ValidationConfig.min_invoice_amount = 0.01
MinInvoiceAmount == 10

\* ValidationConfig.max_invoice_amount = 1_000_000.00
MaxInvoiceAmount == 1000000000

\* ValidationConfig.max_invoice_age_days
MaxInvoiceAgeDays == 365

\* date.today()
Today == 0

\* str | None and date | None fields: <<>> is None.
Some(x) == <<x>>

\* ValidationResult()
NewVerdict == [is_valid |-> TRUE, errors |-> <<>>, warnings |-> <<>>]

\* ValidationResult.add_error without the assignment of is_valid.
add_error_KeepsValid(r, message) ==
    [r EXCEPT !.errors = Append(r.errors, message)]

\* ValidationResult.add_error
add_error(r, message) ==
    [r EXCEPT !.errors = Append(r.errors, message), !.is_valid = FALSE]

\* ValidationResult.add_warning
add_warning(r, message) ==
    [r EXCEPT !.warnings = Append(r.warnings, message)]

\* An invoice number is the sequence of its characters.
RECURSIVE Text(_)
Text(chars) == IF chars = <<>> THEN "" ELSE chars[1] \o Text(Tail(chars))

Letters == {"I", "N", "V", "a", "b"}

Digits == {"0", "1", "2"}

\* The character class [A-Za-z0-9\-/_]
NumberChars == Letters \cup Digits \cup {"-", "/", "_"}

\* re.match(r"^[A-Za-z0-9\-/_]+$", s): one or more characters of the class up
\* to the end of the string, or up to a newline that ends the string.
MatchesNumberFormat(s) ==
    LET body == IF s # <<>> /\ s[Len(s)] = "\n"
                THEN SubSeq(s, 1, Len(s) - 1)
                ELSE s
    IN  /\ body # <<>>
        /\ \A i \in 1..Len(body) : body[i] \in NumberChars

\* str.strip().lower() of the vendor names of the model.
StripLower(name) ==
    CASE name = " ACME Corp " -> "acme corp"
      [] name = "Acme Corp" -> "acme corp"
      [] name = "Globex" -> "globex"
      [] OTHER -> name

\* sum(item.total for item in line_items)
RECURSIVE Sum(_)
Sum(totals) == IF totals = <<>> THEN 0 ELSE totals[1] + Sum(Tail(totals))

\* _check_invoice_number_format
check_invoice_number_format(inv, r) ==
    IF inv.invoice_number = <<>>
    THEN add_error(r, "Invoice number is empty")
    ELSE IF ~MatchesNumberFormat(inv.invoice_number)
    THEN add_error(r, "Invalid invoice number format: " \o Text(inv.invoice_number))
    ELSE r

\* _check_amount_range run only on a verdict that has no error yet.
check_amount_range_OnlyIfValid(inv, r) ==
    IF ~r.is_valid
    THEN r
    ELSE IF inv.total_amount < MinInvoiceAmount
         THEN add_error(r, "Invoice amount " \o ToString(inv.total_amount)
                            \o " is below minimum " \o ToString(MinInvoiceAmount))
         ELSE IF inv.total_amount > MaxInvoiceAmount
         THEN add_error(r, "Invoice amount " \o ToString(inv.total_amount)
                            \o " exceeds maximum " \o ToString(MaxInvoiceAmount))
         ELSE r

\* _check_amount_range
check_amount_range(inv, r) ==
    IF inv.total_amount < MinInvoiceAmount
    THEN add_error(r, "Invoice amount " \o ToString(inv.total_amount)
                       \o " is below minimum " \o ToString(MinInvoiceAmount))
    ELSE IF inv.total_amount > MaxInvoiceAmount
    THEN add_error(r, "Invoice amount " \o ToString(inv.total_amount)
                       \o " exceeds maximum " \o ToString(MaxInvoiceAmount))
    ELSE r

\* _check_po_number with the reference set consulted even when it is empty.
check_po_number_EmptySetRejects(inv, r) ==
    IF inv.po_number = <<>>
    THEN add_warning(r, "No PO number on invoice")
    ELSE IF inv.po_number[1] \notin valid_po_numbers
    THEN add_error(r, "PO number " \o inv.po_number[1]
                       \o " not found in reference data")
    ELSE r

\* _check_po_number
check_po_number(inv, r) ==
    IF inv.po_number = <<>>
    THEN add_warning(r, "No PO number on invoice")
    ELSE IF valid_po_numbers # {} /\ inv.po_number[1] \notin valid_po_numbers
    THEN add_error(r, "PO number " \o inv.po_number[1]
                       \o " not found in reference data")
    ELSE r

\* _check_approved_vendor
check_approved_vendor(inv, r) ==
    IF approved_vendors = {}
    THEN r
    ELSE IF StripLower(inv.vendor_name) \notin approved_vendors
    THEN add_error(r, "Vendor '" \o inv.vendor_name
                       \o "' is not an approved vendor")
    ELSE r

\* _check_line_items_sum with a tolerance of one cent.
check_line_items_sum_Tolerant(inv, r) ==
    IF inv.line_items = <<>>
    THEN add_warning(r, "No line items found on invoice")
    ELSE IF Sum(inv.line_items) - inv.total_amount > 10
            \/ inv.total_amount - Sum(inv.line_items) > 10
    THEN add_error(r, "Line items sum (" \o ToString(Sum(inv.line_items))
                       \o ") does not match total amount ("
                       \o ToString(inv.total_amount) \o ")")
    ELSE r

\* _check_line_items_sum
check_line_items_sum(inv, r) ==
    IF inv.line_items = <<>>
    THEN add_warning(r, "No line items found on invoice")
    ELSE IF Sum(inv.line_items) # inv.total_amount
    THEN add_error(r, "Line items sum (" \o ToString(Sum(inv.line_items))
                       \o ") does not match total amount ("
                       \o ToString(inv.total_amount) \o ")")
    ELSE r

\* _check_date_sanity
check_date_sanity(inv, r) ==
    LET r1 == IF inv.invoice_date > Today
              THEN add_error(r, "Invoice date is in the future")
              ELSE r
        r2 == IF inv.invoice_date < Today - MaxInvoiceAgeDays
              THEN add_error(r1, "Invoice date is older than "
                                  \o ToString(MaxInvoiceAgeDays) \o " days")
              ELSE r1
    IN  IF inv.due_date # <<>> /\ inv.due_date[1] < inv.invoice_date
        THEN add_warning(r2, "Due date is before invoice date")
        ELSE r2

\* The invoices given to validate(): InvoiceData.__post_init__ has accepted
\* them, so the number is not empty and the total is positive.
InvoiceNumberInputs ==
    {<<"I", "N", "V", "-", "1">>,
     <<"I", "N", "V", " ", "1">>,
     <<"I", "N", "V", "-", "1", "\n">>}

TotalInputs == {5, MinInvoiceAmount, 100000, MaxInvoiceAmount + 10}

PoInputs == {<<>>, Some("PO-1"), Some("PO-9")}

VendorInputs == {" ACME Corp ", "Globex"}

ItemTotals == {10, 99990}

LineItemInputs == UNION {[1..n -> ItemTotals] : n \in 0..MaxItems}

DateInputs ==
    {Today + 1, Today, Today - MaxInvoiceAgeDays, Today - MaxInvoiceAgeDays - 1}

InvoiceInputs ==
    {[invoice_number |-> n, total_amount |-> t, po_number |-> po,
      vendor_name |-> v, line_items |-> li, invoice_date |-> d,
      due_date |-> due] :
        n \in InvoiceNumberInputs, t \in TotalInputs, po \in PoInputs,
        v \in VendorInputs, li \in LineItemInputs, d \in DateInputs,
        due \in {<<>>, Some(Today - 1)}}

\* A reference CSV file: absent, or its rows (the first one is the header),
\* each row the sequence of its cells.
AbsentFile == [exists |-> FALSE, rows |-> <<>>]

CsvFile(rows) == [exists |-> TRUE, rows |-> rows]

PoFiles ==
    {AbsentFile,
     CsvFile(<<>>),
     CsvFile(<< <<"po_number">> >>),
     CsvFile(<< <<"po_number">>, <<>>, <<" PO-1 ", "open">> >>)}

VendorFiles ==
    {AbsentFile,
     CsvFile(<< <<"vendor_name">> >>),
     CsvFile(<< <<"vendor_name">>, <<" ACME Corp ">>, <<"Acme Corp">> >>)}

\* str.strip() of the cells of the model.
Strip(cell) ==
    CASE cell = " PO-1 " -> "PO-1"
      [] cell = " ACME Corp " -> "ACME Corp"
      [] cell = "ACME Corp " -> "ACME Corp"
      [] OTHER -> cell

\* The first cells of the non-empty rows after the header.
FirstCells(file) ==
    {file.rows[i][1] : i \in {j \in 2..Len(file.rows) : file.rows[j] # <<>>}}

\* _load_po_numbers
load_po_numbers(file) ==
    IF ~file.exists THEN {} ELSE {Strip(c) : c \in FirstCells(file)}

\* _load_approved_vendors
load_approved_vendors(file) ==
    IF ~file.exists THEN {} ELSE {StripLower(c) : c \in FirstCells(file)}

PoNumberSets == {load_po_numbers(f) : f \in PoFiles}

ApprovedVendorSets == {load_approved_vendors(f) : f \in VendorFiles}

\* Messages of add_error and add_warning calls made outside validate().
Messages == {"m1", "m2"}

\* InvoiceValidator(config) was built and validate(invoice) has executed
\* result = ValidationResult(); or a ValidationResult() was created by itself.
\* validate(invoice) may be called a second time with the same record.
ValidatorInit ==
    /\ PipelineUnused
    /\ RetryUnused
    /\ ParserUnused
    /\ SharedUnused
    /\ verdict = NewVerdict
    /\ verdicts = <<>>
    /\ \/ /\ vpc = "check_invoice_number_format"
          /\ invoice \in InvoiceInputs
          /\ valid_po_numbers \in PoNumberSets
          /\ approved_vendors \in ApprovedVendorSets
       \/ /\ vpc = "free"
          /\ invoice = <<>>
          /\ valid_po_numbers = {}
          /\ approved_vendors = {}

\* self._check_invoice_number_format(invoice, result)
CheckInvoiceNumberFormat ==
    /\ vpc = "check_invoice_number_format"
    /\ verdict' = check_invoice_number_format(invoice, verdict)
    /\ vpc' = "check_amount_range"
    /\ UNCHANGED <<validator_frame, invoice, valid_po_numbers, approved_vendors,
                   verdicts>>

\* self._check_amount_range(invoice, result)
CheckAmountRange ==
    /\ vpc = "check_amount_range"
    /\ verdict' = check_amount_range(invoice, verdict)
    /\ vpc' = "check_po_number"
    /\ UNCHANGED <<validator_frame, invoice, valid_po_numbers, approved_vendors,
                   verdicts>>

\* self._check_po_number(invoice, result)
CheckPoNumber ==
    /\ vpc = "check_po_number"
    /\ verdict' = check_po_number(invoice, verdict)
    /\ vpc' = "check_approved_vendor"
    /\ UNCHANGED <<validator_frame, invoice, valid_po_numbers, approved_vendors,
                   verdicts>>

\* self._check_approved_vendor(invoice, result)
CheckApprovedVendor ==
    /\ vpc = "check_approved_vendor"
    /\ verdict' = check_approved_vendor(invoice, verdict)
    /\ vpc' = "check_line_items_sum"
    /\ UNCHANGED <<validator_frame, invoice, valid_po_numbers, approved_vendors,
                   verdicts>>

\* self._check_line_items_sum(invoice, result)
CheckLineItemsSum ==
    /\ vpc = "check_line_items_sum"
    /\ verdict' = check_line_items_sum(invoice, verdict)
    /\ vpc' = "check_date_sanity"
    /\ UNCHANGED <<validator_frame, invoice, valid_po_numbers, approved_vendors,
                   verdicts>>

\* self._check_date_sanity(invoice, result); return result
CheckDateSanity ==
    /\ vpc = "check_date_sanity"
    /\ verdict' = check_date_sanity(invoice, verdict)
    /\ vpc' = "returned"
    /\ UNCHANGED <<validator_frame, invoice, valid_po_numbers, approved_vendors,
                   verdicts>>

\* result.add_error(message) on a ValidationResult outside validate()
AddError ==
    /\ vpc = "free"
    /\ Len(verdict.errors) + Len(verdict.warnings) < MaxCalls
    /\ \E m \in Messages : verdict' = add_error(verdict, m)
    /\ UNCHANGED <<validator_frame, vpc, invoice, valid_po_numbers,
                   approved_vendors, verdicts>>

\* result.add_warning(message) on a ValidationResult outside validate()
AddWarning ==
    /\ vpc = "free"
    /\ Len(verdict.errors) + Len(verdict.warnings) < MaxCalls
    /\ \E m \in Messages : verdict' = add_warning(verdict, m)
    /\ UNCHANGED <<validator_frame, vpc, invoice, valid_po_numbers,
                   approved_vendors, verdicts>>

\* A second call of validate() that goes on with the ValidationResult of the
\* first call instead of a new one.
ValidateAgain_ReusesVerdict ==
    /\ vpc = "returned"
    /\ verdicts = <<>>
    /\ verdicts' = << verdict >>
    /\ vpc' = "check_invoice_number_format"
    /\ UNCHANGED <<validator_frame, invoice, valid_po_numbers, approved_vendors,
                   verdict>>

\* return result, and a second call validate(invoice) with the same record
\* on the same validator: result = ValidationResult()
ValidateAgain ==
    /\ vpc = "returned"
    /\ verdicts = <<>>
    /\ verdicts' = << verdict >>
    /\ verdict' = NewVerdict
    /\ vpc' = "check_invoice_number_format"
    /\ UNCHANGED <<validator_frame, invoice, valid_po_numbers, approved_vendors>>

ValidatorNext ==
    \/ CheckInvoiceNumberFormat
    \/ CheckAmountRange
    \/ CheckPoNumber
    \/ CheckApprovedVendor
    \/ CheckLineItemsSum
    \/ CheckDateSanity
    \/ ValidateAgain
    \/ AddError
    \/ AddWarning

SpecValidator == ValidatorInit /\ [][ValidatorNext]_vars

----------------------------------------------------------------------------
\* Vocabulary of the properties.

\* The calls made for the current attachment whose operation is op.
CallsOf(op) == {k \in 1..Len(calls) : calls[k].op = op}

\* _process_single has ended for the current attachment and its result has
\* been appended to the results of run().
ItemEnded ==
    /\ idx > 0
    /\ pc \in {"item", "summary", "returned"}

\* _process_single has ended for the current attachment, by a return or by an
\* exception leaving it.
ItemLeft == ItemEnded \/ (pc = "raised" /\ raised_at = "item")

TerminalStatuses == {STORED, NOTIFIED, VALIDATION_FAILED, DUPLICATE, FAILED}

AbsorbingStatuses == {NOTIFIED, VALIDATION_FAILED, DUPLICATE, FAILED}

\* The stage that follows s on PENDING -> FETCHED -> PARSED -> VALIDATED ->
\* STORED -> NOTIFIED.
NextStage(s) ==
    CASE s = PENDING -> FETCHED
      [] s = FETCHED -> PARSED
      [] s = PARSED -> VALIDATED
      [] s = VALIDATED -> STORED
      [] s = STORED -> NOTIFIED
      [] OTHER -> None

----------------------------------------------------------------------------
\* C1: a failure of any stage for one attachment never makes run() raise, and
\* run() returns exactly one outcome per fetched attachment, in fetch order.
C1_FailureIsolation ==
    /\ raised_at # "item"
    /\ pc = "returned" =>
         /\ Len(results) = Len(attachments)
         /\ \A i \in 1..Len(results) : results[i].attachment = attachments[i]

\* C2: run() raises only when the initial batch fetch (mailbox connect or
\* fetch_invoice_emails) fails.
C2_RaisesOnlyOnFetchFailure ==
    pc = "raised" => raised_at = "fetch"

\* C3: every outcome in the results of run() has a terminal status (STORED,
\* NOTIFIED, VALIDATION_FAILED, DUPLICATE or FAILED).
C3_OutcomesTerminal ==
    \A i \in 1..Len(results) : results[i].status \in TerminalStatuses

C3_Witness ==
    /\ pc = "returned"
    /\ Len(results) = 2
    /\ results[1].status = FAILED
    /\ results[2].status = STORED

\* C4: the status of an attachment starts at PENDING and a step changes it only
\* to the next stage of PENDING -> FETCHED -> PARSED -> VALIDATED -> STORED ->
\* NOTIFIED, to VALIDATION_FAILED from PARSED, to DUPLICATE from VALIDATED, or
\* to FAILED.
C4_StatusAdvancesByStage ==
    [][IF idx' = idx
       THEN \/ result'.status = result.status
            \/ result'.status = NextStage(result.status)
            \/ result'.status = VALIDATION_FAILED /\ result.status = PARSED
            \/ result'.status = DUPLICATE /\ result.status = VALIDATED
            \/ result'.status = FAILED /\ result.status # PENDING
       ELSE result'.status = PENDING]_vars

C4_Witness ==
    /\ pc = "returned"
    /\ Len(results) = 2
    /\ results[1].status = NOTIFIED
    /\ results[2].status = DUPLICATE

\* C5: once the status of an attachment is NOTIFIED, VALIDATION_FAILED,
\* DUPLICATE or FAILED, no step changes it.
C5_TerminalAbsorbing ==
    [][(idx' = idx /\ result.status \in AbsorbingStatuses)
          => result'.status = result.status]_vars

\* C6: insert_invoice is called for an attachment only when dry-run is off,
\* parse returned a record, the verdict was valid and the call just before it
\* was check_duplicate returning false; it is called at most once.
C6_InsertOnlyAfterChecks ==
    \A k \in CallsOf("insert_invoice") :
        /\ ~dry_run
        /\ Call("parse", result.attachment.filename, "ok")
              \in {calls[j] : j \in 1..k}
        /\ Call("validate", calls[k].arg, "ok") \in {calls[j] : j \in 1..k}
        /\ validation_result # <<>> /\ validation_result[1].is_valid
        /\ k > 1 /\ calls[k - 1] = Call("check_duplicate", calls[k].arg, "FALSE")
        /\ CallsOf("insert_invoice") = {k}

C6_Witness ==
    /\ \E k \in CallsOf("insert_invoice") : calls[k].res = "ok"
    /\ idx = 2
    /\ results[1].status = VALIDATION_FAILED

\* C7: when check_duplicate reports that the invoice number exists, the status
\* of the attachment is DUPLICATE from then on, and neither insert_invoice nor
\* notify_failure nor notify_success is called for it.
C7_DuplicateIsSilent ==
    (\E k \in CallsOf("check_duplicate") : calls[k].res = "TRUE") =>
        /\ result.status = DUPLICATE
        /\ ItemEnded => results[idx] = result
        /\ CallsOf("insert_invoice") = {}
        /\ CallsOf("notify_failure") = {}
        /\ CallsOf("notify_success") = {}

\* The duplicate of an invoice stored by the attachment before it.
C7_Witness ==
    /\ pc = "returned"
    /\ Len(results) = 2
    /\ results[1].status = NOTIFIED
    /\ results[2].status = DUPLICATE
    /\ results[2].invoice_data = results[1].invoice_data
    /\ \E k \in CallsOf("check_duplicate") : calls[k].res = "TRUE"

\* C8: when the verdict is invalid, the attachment ends with status
\* VALIDATION_FAILED, the errors of the verdict as validation_errors and their
\* "; " join as error message, with no duplicate check, insert or success
\* report.
C8_InvalidVerdictEndsRejected ==
    (ItemLeft /\ validation_result # <<>> /\ ~validation_result[1].is_valid) =>
        /\ result.status = VALIDATION_FAILED
        /\ result.validation_errors = validation_result[1].errors
        /\ result.error_message = JoinErrors(validation_result[1].errors)
        /\ CallsOf("check_duplicate") = {}
        /\ CallsOf("insert_invoice") = {}
        /\ CallsOf("notify_success") = {}

\* The errors a call of op can raise.
ErrorsOf(op) ==
    CASE op = "parse" -> ParseErrors
      [] op = "check_duplicate" -> StoreErrors("check for duplicate")
      [] op = "insert_invoice" -> StoreErrors("insert invoice")
      [] OTHER -> {}

\* The call k raised ExtractionError (parse) or a store error or
\* RetryExhaustedError (check_duplicate, insert_invoice).
FatalCall(k) ==
    \/ calls[k].op = "parse" /\ calls[k].res = PDFExtractionError
    \/ /\ calls[k].op \in {"check_duplicate", "insert_invoice"}
       /\ calls[k].res \in {DatabaseError, RetryExhaustedError}

\* C9: when parse raises ExtractionError, or check_duplicate or insert_invoice
\* raises a store error or RetryExhaustedError, the status of the attachment is
\* FAILED, its error message is the text of that error, and no validation,
\* store call or success report follows.
C9_FatalErrorEndsFailed ==
    \A k \in 1..Len(calls) : FatalCall(k) =>
        /\ result.status = FAILED
        /\ \E e \in ErrorsOf(calls[k].op) :
              e.kind = calls[k].res /\ result.error_message = e.text
        /\ \A j \in (k + 1)..Len(calls) :
              calls[j].op \notin {"validate", "check_duplicate",
                                  "insert_invoice", "notify_success"}
        /\ ItemEnded => results[idx] = result

C9_Witness ==
    /\ pc = "returned"
    /\ Len(results) = 2
    /\ results[1].status = FAILED
    /\ results[1].error_message = "No text extracted from PDF"
    /\ calls[Len(calls)].op = "insert_invoice"
    /\ calls[Len(calls)].res = RetryExhaustedError

\* C10: in a non-dry-run run, exactly one failure report is sent for an
\* attachment that ends FAILED or VALIDATION_FAILED and none for one that ends
\* with another status.
C10_OneFailureReportPerFailure ==
    (ItemEnded /\ ~dry_run) =>
        Cardinality(CallsOf("notify_failure")) =
            IF result.status \in {FAILED, VALIDATION_FAILED} THEN 1 ELSE 0

\* The success report of the current attachment was sent and returned.
SuccessReported ==
    \E k \in CallsOf("notify_success") : calls[k].res = "ok"

\* The insert of the current attachment succeeded.
Inserted ==
    \E k \in CallsOf("insert_invoice") : calls[k].res = "ok"

\* C11: after a successful insert the attachment ends NOTIFIED when the
\* success report succeeds and STORED when the notifier fails, whatever the
\* kind of the failure, and the failure never leaves run().
C11_NotifierFailureKeepsStored ==
    (Inserted /\ ItemLeft) =>
        /\ result.status = IF SuccessReported THEN NOTIFIED ELSE STORED
        /\ pc # "raised"

\* The attempts to mark the attachment as processed: each entry of the with
\* block of the mailbox at the end of the try, whether connect() failed or
\* mark_as_processed was called.
MarkAttempts ==
    {k \in 1..Len(calls) :
        \/ calls[k].op = "mark_as_processed"
        \/ calls[k].op = "connect"}

\* C12: once the stages of an attachment have ended, whatever its status,
\* exactly one attempt to mark it as processed in the mailbox was made.
C12_MarkAttemptedOncePerItem ==
    ItemLeft => Cardinality(MarkAttempts) = 1

\* The attempt to mark the current attachment as processed failed, in
\* connect() or in mark_as_processed.
MarkFailed ==
    \E k \in MarkAttempts : calls[k].res # "ok"

\* C13: a failure to mark an attachment as processed, in the reconnection or
\* in the marking, leaves the status of the attachment as it was before the
\* attempt, does not make run() raise, and the attachments after it are still
\* processed.
C13_MarkFailureIsSwallowed ==
    MarkFailed =>
        /\ result.status = IF SuccessReported THEN NOTIFIED ELSE STORED
        /\ result.error_message = None
        /\ pc = "raised" => raised_at = "summary"
        /\ pc \in {"summary", "returned", "raised"} => idx = Len(attachments)
        /\ ItemEnded => results[idx] = result

\* The mark of the first attachment failed and the second was processed.
C13_Witness ==
    /\ pc = "returned"
    /\ Len(results) = 2
    /\ results[1].status = NOTIFIED
    /\ results[1].attachment.email_uid \notin seen
    /\ results[2].status = STORED
    /\ MarkFailed

\* C14: a non-dry-run run over a non-empty batch sends exactly one summary,
\* after every attachment has its final status and after all per-attachment
\* calls; a dry run or an empty batch sends none; a failure of the notifier
\* while sending the summary does not make run() raise.
C14_OneSummaryAfterAllItems ==
    /\ summaries > 0 =>
          /\ ~dry_run
          /\ attachments # <<>>
          /\ Len(results) = Len(attachments)
          /\ \A i \in 1..Len(results) : results[i].status \in TerminalStatuses
          /\ pc \in {"returned", "raised"}
    /\ pc = "returned" =>
          summaries = IF dry_run \/ attachments = <<>> THEN 0 ELSE 1
    /\ pc = "raised" => raised_at # "summary"

\* The verdict of the current attachment is valid.
VerdictValid ==
    validation_result # <<>> /\ validation_result[1].is_valid

\* C15 as stated: in dry-run mode no operation of the store is invoked, not
\* even its connection, and every attachment with a valid verdict ends STORED.
C15_DryRunTouchesNoStore ==
    dry_run =>
        /\ engine = "None"
        /\ raised_at # "store_connect"
        /\ CallsOf("check_duplicate") = {}
        /\ CallsOf("insert_invoice") = {}
        /\ (ItemLeft /\ VerdictValid) => result.status = STORED

\* C15, amended: in dry-run mode neither check_duplicate nor insert_invoice is
\* invoked (the store connection is still entered for a non-empty batch), and
\* every attachment with a valid verdict ends STORED.
C15_DryRunSkipsStoreCalls ==
    dry_run =>
        /\ CallsOf("check_duplicate") = {}
        /\ CallsOf("insert_invoice") = {}
        /\ (ItemLeft /\ VerdictValid) =>
              /\ result.status = STORED
              /\ ItemEnded
              /\ results[idx] = result

\* A dry run with the store engine open and a valid attachment ended STORED.
C15_Witness ==
    /\ dry_run
    /\ engine = "open"
    /\ ItemEnded
    /\ VerdictValid
    /\ result.status = STORED

\* C16: in dry-run mode the notifier is never invoked (no success report, no
\* failure report, no summary), while parse runs for every attachment and
\* validate for every attachment that was parsed.
C16_DryRunNeverNotifies ==
    dry_run =>
        /\ CallsOf("notify_success") = {}
        /\ CallsOf("notify_failure") = {}
        /\ summaries = 0
        /\ ItemLeft =>
              /\ Cardinality(CallsOf("parse")) = 1
              /\ (\E k \in CallsOf("parse") : calls[k].res = "ok")
                    => Cardinality(CallsOf("validate")) = 1
        /\ pc \in {"summary", "returned"} => Len(results) = Len(attachments)
        /\ pc = "raised" => raised_at \in {"fetch", "store_connect"}

\* A dry run that ended with an extraction failure and a rejected attachment.
C16_Witness ==
    /\ dry_run
    /\ pc = "returned"
    /\ Len(results) = 2
    /\ results[1].status = FAILED
    /\ results[1].error_message = "No text extracted from PDF"
    /\ results[2].status = VALIDATION_FAILED
    /\ CallsOf("validate") # {}

\* C17: when run() has returned or raised, also after a connect() that failed
\* part-way, neither the mailbox connection nor the store engine is open.
C17_ConnectionsReleased ==
    pc \in {"returned", "raised"} =>
        /\ connection = "None"
        /\ engine = "None"

----------------------------------------------------------------------------
\* Vocabulary of the properties of the retry wrapper.

\* The invocations of the decorated function, as places in events.
Invocations == {k \in 1..Len(events) : events[k].ev = "func"}

\* wrapper has returned or raised.
RetryDone == rpc \in {"returned", "raised"}

\* The kind of e is in the configured retryable set.
InRetryableSet(e) ==
    \/ OtherException \in retryable_exceptions
    \/ e.kind \in retryable_exceptions

\* The invocation at place k raised.
Failed(k) == events[k].exc # <<>>

\* C18: when each of the max_attempts invocations fails with a retryable
\* error, wrapper raises RetryExhaustedError with attempts = max_attempts and
\* last_exception the error of the last invocation, never the raw error, also
\* for max_attempts = 1.
C18_ExhaustedWrapsLastError ==
    ( /\ RetryDone
      /\ max_attempts >= 1
      /\ Cardinality(Invocations) = max_attempts
      /\ \A k \in Invocations : Failed(k) /\ InRetryableSet(events[k].exc[1]) )
    =>
        /\ rpc = "raised"
        /\ returned = <<>>
        /\ Len(raised) = 1
        /\ raised[1].kind = RetryExhaustedError
        /\ raised[1].attempts = max_attempts
        /\ events[Len(events)].ev = "func"
        /\ raised[1].last_exception = events[Len(events)].exc

\* Three attempts failed with different retryable errors.
C18_Witness ==
    /\ rpc = "raised"
    /\ max_attempts = 3
    /\ retryable_exceptions = {ValueError}
    /\ Cardinality(Invocations) = 3
    /\ raised[1].kind = RetryExhaustedError
    /\ raised[1].last_exception = <<Exc(ValueError, "permanent error")>>
    /\ events[1].exc = <<Exc(ValueError, "temporary error")>>

\* C19: an error whose kind is not in the retryable set leaves wrapper
\* unchanged at the attempt on which it occurs, first or later: nothing
\* follows it (no sleep, no on_retry call, no invocation) and it is not
\* wrapped as RetryExhaustedError.
C19_NonRetryablePropagates ==
    \A k \in Invocations :
        (Failed(k) /\ ~InRetryableSet(events[k].exc[1])) =>
            /\ k = Len(events)
            /\ events[k].attempt = attempt
            /\ rpc = "raised"
            /\ raised = events[k].exc
            /\ returned = <<>>

\* A non-retryable error at the second attempt, after one retry.
C19_Witness ==
    /\ rpc = "raised"
    /\ attempt = 2
    /\ max_attempts = 3
    /\ on_retry
    /\ Cardinality(Invocations) = 2
    /\ raised = <<Exc(TypeError, "wrong type")>>

\* The most invocations a wrapper built with max_attempts may make.
InvocationLimit == IF max_attempts > 0 THEN max_attempts ELSE 0

\* The number of invocations never exceeds max_attempts, and an invocation
\* that succeeds is the last thing wrapper does: it is the k-th invocation at
\* attempt k, and wrapper returns its value.
InvocationsBounded ==
    /\ Cardinality(Invocations) <= InvocationLimit
    /\ \A k \in Invocations :
          /\ events[k].attempt = Cardinality({j \in Invocations : j <= k})
          /\ ~Failed(k) =>
                /\ k = Len(events)
                /\ \A j \in Invocations : j < k => Failed(j)
                /\ rpc = "returned"
                /\ returned = events[k].value
                /\ raised = <<>>
                /\ Cardinality(Invocations) = events[k].attempt
                /\ events[k].attempt <= max_attempts

\* C20: wrapper always terminates and invokes the function at most
\* max_attempts times; when the k-th invocation is the first to succeed,
\* wrapper returns its result after exactly k invocations.
C20_TerminatesWithinMaxAttempts ==
    /\ []InvocationsBounded
    /\ <>RetryDone

\* The second of three permitted invocations succeeded.
C20_Witness ==
    /\ rpc = "returned"
    /\ max_attempts = 3
    /\ Cardinality(Invocations) = 2
    /\ Failed(1)
    /\ returned = <<"b">>

\* The calls of the on_retry callback and the sleeps, as places in events.
ObserverCalls == {k \in 1..Len(events) : events[k].ev = "on_retry"}

Sleeps == {k \in 1..Len(events) : events[k].ev = "sleep"}

\* C21: a configured on_retry callback is called exactly once per retry, with
\* the number of the attempt that just failed and that attempt's error, and
\* before the sleep of that retry; it is not called after a success, after a
\* non-retryable error or after the last failed attempt.
C21_ObserverOncePerRetry ==
    /\ \A k \in ObserverCalls :
          /\ on_retry
          /\ k > 1
          /\ events[k - 1].ev = "func"
          /\ Failed(k - 1)
          /\ InRetryableSet(events[k - 1].exc[1])
          /\ events[k].attempt = events[k - 1].attempt
          /\ events[k].exc = events[k - 1].exc
          /\ events[k].attempt = Cardinality({j \in Invocations : j < k})
          /\ events[k].attempt < max_attempts
    /\ \A k \in Sleeps :
          on_retry =>
             /\ k > 1
             /\ events[k - 1].ev = "on_retry"
             /\ events[k - 1].attempt = events[k].attempt
    /\ \A k \in Invocations :
          ( /\ on_retry
            /\ Failed(k)
            /\ InRetryableSet(events[k].exc[1])
            /\ events[k].attempt < max_attempts
            /\ k < Len(events) )
          => events[k + 1].ev = "on_retry"
    /\ \A a \in 1..MaxAttempts :
          Cardinality({k \in ObserverCalls : events[k].attempt = a}) <= 1

\* Two retries were observed and the third, last attempt failed unobserved.
C21_Witness ==
    /\ on_retry
    /\ rpc = "raised"
    /\ max_attempts = 3
    /\ Cardinality(Invocations) = 3
    /\ Cardinality(ObserverCalls) = 2
    /\ Cardinality(Sleeps) = 2
    /\ events[Len(events)].ev = "func"
    /\ raised[1].kind = RetryExhaustedError

\* min(base_delay * exponential_base^(n-1), max_delay), in seconds.
CappedBackoff(n) ==
    LET x == base_delay * Pow(exponential_base, n - 1)
    IN  IF x < max_delay THEN x ELSE max_delay

ExampleConfig ==
    /\ max_attempts = 3
    /\ base_delay = 1
    /\ exponential_base = 2
    /\ max_delay = 100

\* min(1.0 * 2^e, 100.0), in seconds.
ExampleBackoff(e) == IF Pow(2, e) < 100 THEN Pow(2, e) ELSE 100

\* The attempt made after the sleep at place k of events.
AttemptAfter(k) == Cardinality({j \in Invocations : j < k}) + 1

\* C23 as stated: in the example configuration the sleep before attempt n
\* (n = 2, 3) lasts between 0.5 and 1.0 times min(1.0 * 2^(n-1), 100.0).
C23_ExampleDelaysByNextAttempt ==
    ExampleConfig =>
        \A k \in Sleeps :
            LET n == AttemptAfter(k) IN
            /\ n \in {2, 3}
            /\ 50 * ExampleBackoff(n - 1) <= events[k].delay
            /\ events[k].delay <= 100 * ExampleBackoff(n - 1)

\* C23, amended: in the example configuration the sleep before attempt n
\* (n = 2, 3) lasts between 0.5 and 1.0 times min(1.0 * 2^(n-2), 100.0): the
\* exponent counts the failed attempts before the one that just failed.
C23_ExampleDelaysByFailedAttempt ==
    ExampleConfig =>
        \A k \in Sleeps :
            LET n == AttemptAfter(k) IN
            /\ n \in {2, 3}
            /\ 50 * ExampleBackoff(n - 2) <= events[k].delay
            /\ events[k].delay <= 100 * ExampleBackoff(n - 2)

\* The example configuration after its two sleeps, the second one in full.
C23_Witness ==
    /\ ExampleConfig
    /\ Cardinality(Sleeps) = 2
    /\ Cardinality(Invocations) = 3
    /\ events[Len(events) - 1].ev = "sleep"
    /\ events[Len(events) - 1].delay = 200

----------------------------------------------------------------------------
\* Properties of the validator.

\* C24: for every verdict validate() builds or returns, and after any
\* sequence of add_error and add_warning calls on a new ValidationResult,
\* is_valid is true exactly when errors is empty; add_warning changes neither
\* is_valid nor errors.
C24_ValidIffNoErrors ==
    vpc # "unused" =>
        /\ verdict.is_valid <=> (verdict.errors = <<>>)
        /\ \A m \in Messages :
              /\ add_warning(verdict, m).is_valid = verdict.is_valid
              /\ add_warning(verdict, m).errors = verdict.errors
              /\ add_warning(verdict, m).warnings = Append(verdict.warnings, m)

\* A verdict with one error, then warnings, outside validate().
C24_Witness ==
    /\ vpc = "free"
    /\ Len(verdict.errors) = 1
    /\ Len(verdict.warnings) = 2
    /\ ~verdict.is_valid

\* The messages of a sequence.
Range(s) == {s[i] : i \in 1..Len(s)}

PoErrorText(po) == "PO number " \o po \o " not found in reference data"

VendorErrorText(v) == "Vendor '" \o v \o "' is not an approved vendor"

\* The verdict has an error of the purchase-order check, of the vendor check.
HasPoError ==
    \E po \in PoInputs : po # <<>> /\ PoErrorText(po[1]) \in Range(verdict.errors)

HasVendorError ==
    \E v \in VendorInputs : VendorErrorText(v) \in Range(verdict.errors)

\* C25: with an empty purchase-order set validate() reports no PO error
\* whatever the PO, and with an empty vendor set no vendor error whatever the
\* vendor; with a non-empty set a PO, or the vendor, that is not in it is an
\* error; an absent PO is a warning and never an error.
C25_EmptyReferenceSetsDisableChecks ==
    vpc = "returned" =>
        /\ valid_po_numbers = {} => ~HasPoError
        /\ approved_vendors = {} => ~HasVendorError
        /\ (valid_po_numbers # {} /\ invoice.po_number # <<>>) =>
              (HasPoError <=> invoice.po_number[1] \notin valid_po_numbers)
        /\ HasPoError => PoErrorText(invoice.po_number[1]) \in Range(verdict.errors)
        /\ approved_vendors # {} =>
              (HasVendorError <=>
                  StripLower(invoice.vendor_name) \notin approved_vendors)
        /\ HasVendorError =>
              VendorErrorText(invoice.vendor_name) \in Range(verdict.errors)
        /\ invoice.po_number = <<>> =>
              /\ ~HasPoError
              /\ "No PO number on invoice" \in Range(verdict.warnings)
        /\ invoice.po_number # <<>> =>
              "No PO number on invoice" \notin Range(verdict.warnings)
        /\ \A f \in PoFiles :
              (~f.exists \/ Len(f.rows) <= 1) => load_po_numbers(f) = {}
        /\ \A f \in VendorFiles :
              (~f.exists \/ Len(f.rows) <= 1) => load_approved_vendors(f) = {}

\* Both reference sets are empty and an invoice with an unknown PO and an
\* unknown vendor is accepted.
C25_Witness ==
    /\ vpc = "returned"
    /\ valid_po_numbers = {}
    /\ approved_vendors = {}
    /\ invoice.po_number = Some("PO-9")
    /\ invoice.vendor_name = "Globex"
    /\ verdict.is_valid

SumErrorText(items_sum, total) ==
    "Line items sum (" \o ToString(items_sum) \o ") does not match total amount ("
        \o ToString(total) \o ")"

\* The verdict has a "does not match" error of the line-item check.
HasSumError ==
    \E li \in LineItemInputs, t \in TotalInputs :
        SumErrorText(Sum(li), t) \in Range(verdict.errors)

\* C26: for an invoice with line items validate() reports the "does not
\* match" error exactly when the sum of the line totals differs from the
\* total amount, by however little; for an invoice without line items it
\* reports a warning and no error of this check.
C26_LineItemSumExact ==
    vpc = "returned" =>
        /\ invoice.line_items # <<>> =>
              /\ HasSumError <=> Sum(invoice.line_items) # invoice.total_amount
              /\ "No line items found on invoice" \notin Range(verdict.warnings)
        /\ invoice.line_items = <<>> =>
              /\ ~HasSumError
              /\ "No line items found on invoice" \in Range(verdict.warnings)
        /\ HasSumError =>
              SumErrorText(Sum(invoice.line_items), invoice.total_amount)
                  \in Range(verdict.errors)

\* Line items that sum to one cent less than the total (99.99 against 100.00).
C26_Witness ==
    /\ vpc = "returned"
    /\ invoice.total_amount = 100000
    /\ invoice.line_items = <<99990>>
    /\ SumErrorText(99990, 100000) \in Range(verdict.errors)

----------------------------------------------------------------------------
\* The field extractor of src/pdf_parser.py and the InvoiceData constructor of
\* src/models.py. One behaviour of SpecParser is one call of
\* PDFParser.parse(pdf_content, filename), or one direct InvoiceData(...) call.
\* A document is what pdfplumber and each list of patterns find in it; amounts
\* are sequences of characters and, once parsed, thousandths.

DecimalDigits == {"0", "1", "2", "3", "4", "5", "6", "7", "8", "9"}

DigitValue(c) ==
    CASE c = "0" -> 0 [] c = "1" -> 1 [] c = "2" -> 2 [] c = "3" -> 3
      [] c = "4" -> 4 [] c = "5" -> 5 [] c = "6" -> 6 [] c = "7" -> 7
      [] c = "8" -> 8 [] c = "9" -> 9

\* The number written by a sequence of digits.
RECURSIVE NumberOf(_)
NumberOf(ds) ==
    IF ds = <<>> THEN 0
    ELSE 10 * NumberOf(SubSeq(ds, 1, Len(ds) - 1)) + DigitValue(ds[Len(ds)])

\* amount_str.replace(",", "").replace("$", "").strip()
RECURSIVE Cleaned(_)
Cleaned(s) ==
    IF s = <<>> THEN <<>>
    ELSE IF s[1] \in {",", "$", " "} THEN Cleaned(Tail(s))
    ELSE <<s[1]>> \o Cleaned(Tail(s))

\* The place of the first "." of s, or Len(s) + 1.
RECURSIVE PointAt(_)
PointAt(s) ==
    IF s = <<>> \/ s[1] = "." THEN 1 ELSE 1 + PointAt(Tail(s))

\* Decimal(cleaned): the value in thousandths, or InvalidOperation when
\* cleaned is not digits with at most one point and at least one digit.
DecimalOf(cleaned) ==
    LET p == PointAt(cleaned)
        whole == SubSeq(cleaned, 1, p - 1)
        frac == SubSeq(cleaned, p + 1, Len(cleaned))
        digits == whole \o frac
    IN  IF /\ digits # <<>>
           /\ \A i \in 1..Len(digits) : digits[i] \in DecimalDigits
           /\ Len(frac) <= 3
        THEN [ok |-> TRUE,
              value |-> NumberOf(whole) * 1000
                          + NumberOf(frac) * Pow(10, 3 - Len(frac))]
        ELSE [ok |-> FALSE, value |-> 0]

\* _parse_amount: the amount, or PDFExtractionError for InvalidOperation.
parse_amount(amount_str) ==
    LET d == DecimalOf(Cleaned(amount_str))
    IN  IF d.ok
        THEN [ok |-> TRUE, value |-> d.value, exc |-> <<>>]
        ELSE [ok |-> FALSE, value |-> 0,
              exc |-> <<Exc(PDFExtractionError, "Invalid amount format")>>]

\* _parse_date: the day number of a date string in one of the formats, or
\* None (<<>>).
parse_date(date_str) ==
    CASE date_str = "01/15/2024" -> Some(-300)
      [] date_str = "January 15, 2024" -> Some(-300)
      [] OTHER -> <<>>

\* InvoiceData.__post_init__ without the check of the total.
InvoiceData_NoTotalCheck(f) ==
    IF f.invoice_number = ""
    THEN [ok |-> FALSE, value |-> f,
          exc |-> <<Exc(ValueError, "Invoice number is required")>>]
    ELSE [ok |-> TRUE, value |-> f, exc |-> <<>>]

\* InvoiceData(...): the record, or the ValueError of __post_init__.
InvoiceData(f) ==
    IF f.total_amount <= 0
    THEN [ok |-> FALSE, value |-> f,
          exc |-> <<Exc(ValueError, "Invoice total must be positive")>>]
    ELSE IF f.invoice_number = ""
    THEN [ok |-> FALSE, value |-> f,
          exc |-> <<Exc(ValueError, "Invoice number is required")>>]
    ELSE [ok |-> TRUE, value |-> f, exc |-> <<>>]

\* The arguments of InvoiceData.
Fields(number, vendor, total, d, due, po, items) ==
    [invoice_number |-> number, vendor_name |-> vendor, total_amount |-> total,
     invoice_date |-> d, due_date |-> due, po_number |-> po,
     line_items |-> items]

\* What the TOTAL_PATTERNS can capture, [\d,]+\.\d{2}: "100.00", "1,000.00",
\* "0.00" and ",.00".
TotalStrInputs ==
    {<<"1", "0", "0", ".", "0", "0">>,
     <<"1", ",", "0", "0", "0", ".", "0", "0">>,
     <<"0", ".", "0", "0">>,
     <<",", ".", "0", "0">>}

\* A PDF that pdfplumber cannot read, one without text, and the PDFs with
\* text: for each list of patterns the first group matched, or None (<<>>).
Document(text, number, vendor, total, d, due, po, items) ==
    [text |-> text, invoice_number |-> number, vendor_name |-> vendor,
     total |-> total, invoice_date |-> d, due_date |-> due, po_number |-> po,
     line_items |-> items]

DocumentInputs ==
    {Document(t, <<>>, <<>>, <<>>, <<>>, <<>>, <<>>, <<>>) :
        t \in {"unreadable", "blank"}}
    \cup
    {Document("text", n, v, t, d, due, po, li) :
        n \in {<<>>, Some("INV-1")},
        v \in {<<>>, Some("ACME Corp ")},
        t \in {<<>>} \cup {Some(x) : x \in TotalStrInputs},
        d \in {<<>>, Some("01/15/2024"), Some("13/45/2024")},
        due \in {<<>>, Some("January 15, 2024")},
        po \in {<<>>, Some("PO-1")},
        li \in {<<>>, <<100000>>}}

\* Arguments of InvoiceData(...) calls made outside parse().
ConstructorInputs ==
    {Fields(n, "Acme", t, Today, <<>>, <<>>, <<>>) :
        n \in {"", "INV-1"}, t \in {-10, 0, 10}}

\* _extract_field: match.group(1).strip() of the first pattern that matches.
extract_field(found) == IF found = <<>> THEN <<>> ELSE Some(Strip(found[1]))

\* _extract_date
extract_date(found) == IF found = <<>> THEN <<>> ELSE parse_date(found[1])

ParserInit ==
    /\ PipelineUnused
    /\ RetryUnused
    /\ ValidatorUnused
    /\ SharedUnused
    /\ parsed = <<>>
    /\ perr = <<>>
    /\ \/ /\ ppc = "extract_text"
          /\ document \in DocumentInputs
          /\ fields = <<>>
       \/ /\ ppc = "construct"
          /\ document = <<>>
          /\ fields \in ConstructorInputs

\* text = self._extract_text(pdf_content, filename); if not text.strip(): raise
ExtractText ==
    /\ ppc = "extract_text"
    /\ IF document.text = "unreadable"
       THEN /\ perr' = <<Exc(PDFExtractionError, "Failed to extract text from PDF")>>
            /\ ppc' = "raised"
       ELSE IF document.text = "blank"
       THEN /\ perr' = <<Exc(PDFExtractionError, "No text extracted from PDF")>>
            /\ ppc' = "raised"
       ELSE /\ ppc' = "extract_fields"
            /\ UNCHANGED perr
    /\ UNCHANGED <<parser_frame, document, fields, parsed>>

\* ExtractFields with the vendor name looked for before the invoice number.
ExtractFields_VendorFirst ==
    /\ ppc = "extract_fields"
    /\ IF extract_field(document.vendor_name) = <<>>
       THEN /\ perr' = <<Exc(PDFExtractionError, "Could not extract vendor name")>>
            /\ ppc' = "raised"
       ELSE IF extract_field(document.invoice_number) = <<>>
       THEN /\ perr' = <<Exc(PDFExtractionError, "Could not extract invoice number")>>
            /\ ppc' = "raised"
       ELSE IF document.total = <<>>
       THEN /\ perr' = <<Exc(PDFExtractionError, "Could not extract total amount")>>
            /\ ppc' = "raised"
       ELSE /\ ppc' = "build"
            /\ UNCHANGED perr
    /\ UNCHANGED <<parser_frame, document, fields, parsed>>

\* The three required fields, in the order invoice number, vendor name, total
\* amount: PDFExtractionError for the first one that no pattern matches.
ExtractFields ==
    /\ ppc = "extract_fields"
    /\ IF extract_field(document.invoice_number) = <<>>
       THEN /\ perr' = <<Exc(PDFExtractionError, "Could not extract invoice number")>>
            /\ ppc' = "raised"
       ELSE IF extract_field(document.vendor_name) = <<>>
       THEN /\ perr' = <<Exc(PDFExtractionError, "Could not extract vendor name")>>
            /\ ppc' = "raised"
       ELSE IF document.total = <<>>
       THEN /\ perr' = <<Exc(PDFExtractionError, "Could not extract total amount")>>
            /\ ppc' = "raised"
       ELSE /\ ppc' = "build"
            /\ UNCHANGED perr
    /\ UNCHANGED <<parser_frame, document, fields, parsed>>

\* total_amount = self._parse_amount(total_str), the optional fields, and
\* invoice = InvoiceData(...); return invoice. An error of _parse_amount or of
\* the constructor leaves parse().
BuildInvoice ==
    /\ ppc = "build"
    /\ LET amount == parse_amount(document.total[1])
           d == extract_date(document.invoice_date)
           po == extract_field(document.po_number)
           made == InvoiceData(Fields(
                      Strip(extract_field(document.invoice_number)[1]),
                      Strip(extract_field(document.vendor_name)[1]),
                      amount.value,
                      IF d # <<>> THEN d[1] ELSE Today,
                      extract_date(document.due_date),
                      IF po # <<>> /\ po[1] # "" THEN Some(Strip(po[1])) ELSE <<>>,
                      document.line_items))
       IN  IF ~amount.ok
           THEN perr' = amount.exc /\ ppc' = "raised" /\ UNCHANGED parsed
           ELSE IF ~made.ok
           THEN perr' = made.exc /\ ppc' = "raised" /\ UNCHANGED parsed
           ELSE parsed' = <<made.value>> /\ ppc' = "returned" /\ UNCHANGED perr
    /\ UNCHANGED <<parser_frame, document, fields>>

\* InvoiceData(...) called directly.
ConstructInvoice ==
    /\ ppc = "construct"
    /\ LET made == InvoiceData(fields)
       IN  IF made.ok
           THEN parsed' = <<made.value>> /\ ppc' = "returned" /\ UNCHANGED perr
           ELSE perr' = made.exc /\ ppc' = "raised" /\ UNCHANGED parsed
    /\ UNCHANGED <<parser_frame, document, fields>>

ParserNext ==
    \/ ExtractText
    \/ ExtractFields
    \/ BuildInvoice
    \/ ConstructInvoice

SpecParser == ParserInit /\ [][ParserNext]_vars

\* ---------------------------------------------------------------------------
\* Properties of the parser and of the invoice record
\* ---------------------------------------------------------------------------

\* The arguments the constructor was called with are rejected by the claim.
Rejected(f) == f.total_amount <= 0 \/ f.invoice_number = ""

\* C27: constructing an invoice record with total amount <= 0 or with an empty
\* invoice number fails with ValueError, and every invoice record that exists,
\* built directly or returned by parse(), has total amount > 0 and a non-empty
\* invoice number.
C27_RecordHasPositiveTotalAndNumber ==
    /\ parsed # <<>> =>
          /\ parsed[1].total_amount > 0
          /\ parsed[1].invoice_number # ""
    /\ (fields # <<>> /\ Rejected(fields) /\ ppc # "construct") =>
          /\ ppc = "raised"
          /\ parsed = <<>>
          /\ perr[1].kind = ValueError

C27_Witness ==
    /\ fields # <<>>
    /\ fields.total_amount <= 0
    /\ ppc = "raised"

\* C28: whatever the document, the only kind of error that leaves parse() is
\* PDFExtractionError.
C28_OnlyExtractionErrorEscapes ==
    (document # <<>> /\ ppc = "raised") => perr[1].kind = PDFExtractionError

\* ---------------------------------------------------------------------------
\* Properties of run(): what was inserted against what is reported
\* ---------------------------------------------------------------------------

\* C29: in a non-dry-run run an attachment is reported STORED or NOTIFIED
\* exactly when its invoice was inserted into the store: none is reported
\* successful without the insert, and none that was inserted is reported
\* FAILED, VALIDATION_FAILED or DUPLICATE, whatever the notifier or the mailbox
\* does after the insert.
C29_InsertedIffReportedStored ==
    (ItemLeft /\ ~dry_run) =>
        (Inserted <=> result.status \in {STORED, NOTIFIED})

----------------------------------------------------------------------------
\* Two runs and one database.  Each run has parsed and validated an attachment
\* and is at stage 3 of _process_single; the statements a run sends to the
\* database are atomic, and the runs' statements interleave in any order.

RunIds == {1, 2}

\* A row of invoices_table: the primary key and the unique invoice_number.
\* Run r's insert generates the id r; a row of an earlier run has the id 0.
Row(id, number) == [id |-> id, invoice_number |-> number]

\* select(invoices_table.c.id).where(invoice_number == ...); fetchone() is not None
check_duplicate(table, number) ==
    \E row \in table : row.invoice_number = number

\* A row of audit_log_table, written by the insert that generated id.
AuditEvent(id, number, event_type) ==
    [id |-> id, invoice_number |-> number, event_type |-> event_type]

\* Where an insert_invoice call fails for a reason of the database's own: at
\* the insert into invoices, at the insert into invoice_audit_log, at the
\* commit, or nowhere.
InsertFailures == {"none", "invoices", "invoice_audit_log", "commit"}

\* The insert with the unique constraint of invoice_number left out.
insert_invoice_NoUnique(table, audit, id, number, failure) ==
    IF failure = "none"
    THEN [ok |-> TRUE, table |-> table \cup {Row(id, number)},
          audit |-> audit \cup {AuditEvent(id, number, "invoice_stored")},
          exc |-> <<>>]
    ELSE [ok |-> FALSE, table |-> table, audit |-> audit,
          exc |-> <<Exc(DatabaseError,
                        "Failed to insert invoice: " \o failure \o " failed")>>]

\* The insert with each statement committed on its own (engine.connect() in
\* autocommit instead of engine.begin()): what was written before a failure
\* stays.
insert_invoice_Autocommit(table, audit, id, number, failure) ==
    LET unique == \E row \in table : row.invoice_number = number
        row_written == failure # "invoices" /\ ~unique
        event_written == row_written /\ failure # "invoice_audit_log"
        text == IF unique /\ failure # "invoices"
                THEN "UNIQUE constraint failed"
                ELSE failure \o " failed"
    IN  [ok |-> event_written /\ failure # "commit",
         table |-> IF row_written THEN table \cup {Row(id, number)} ELSE table,
         audit |-> IF event_written
                   THEN audit \cup {AuditEvent(id, number, "invoice_stored")}
                   ELSE audit,
         exc |-> IF event_written /\ failure # "commit"
                 THEN <<>>
                 ELSE <<Exc(DatabaseError, "Failed to insert invoice: " \o text)>>]

\* with self._engine.begin() as conn: the insert into invoices, which the
\* database rejects for a second row with the invoice_number, then
\* _insert_audit_event(conn, ..., "invoice_stored"), then the commit at the
\* end of the block.  A failure of any of the three rolls the transaction
\* back and is raised as DatabaseError.
insert_invoice(table, audit, id, number, failure) ==
    LET unique == \E row \in table : row.invoice_number = number
        row_written == failure # "invoices" /\ ~unique
        event_written == row_written /\ failure # "invoice_audit_log"
        committed == event_written /\ failure # "commit"
        text == IF unique /\ failure # "invoices"
                THEN "UNIQUE constraint failed"
                ELSE failure \o " failed"
    IN  IF committed
        THEN [ok |-> TRUE, table |-> table \cup {Row(id, number)},
              audit |-> audit \cup {AuditEvent(id, number, "invoice_stored")},
              exc |-> <<>>]
        ELSE [ok |-> FALSE, table |-> table, audit |-> audit,
              exc |-> <<Exc(DatabaseError, "Failed to insert invoice: " \o text)>>]

\* The part of a run's ProcessingResult the store stage decides.
RunState(at, number, status, message) ==
    [pc |-> at, invoice_number |-> number, status |-> status,
     error_message |-> message]

\* except (DatabaseError, RetryExhaustedError), except Exception: FAILED
RunFailed(r, e) ==
    runs' = [runs EXCEPT ![r] =
                RunState("returned", runs[r].invoice_number, FAILED, e.text)]

SharedInit ==
    /\ PipelineUnused
    /\ RetryUnused
    /\ ValidatorUnused
    /\ ParserUnused
    /\ \/ invoices_table = {} /\ audit_log_table = {}
       \/ /\ invoices_table = {Row(0, "INV-1")}
          /\ audit_log_table = {AuditEvent(0, "INV-1", "invoice_stored")}
    /\ runs \in {[r \in RunIds |-> RunState("check_duplicate", n[r], VALIDATED, None)] :
                    n \in [RunIds -> InvoiceNumbers]}

\* if db.check_duplicate(invoice_data.invoice_number): DUPLICATE, return
RunCheckDuplicate(r) ==
    /\ runs[r].pc = "check_duplicate"
    /\ \/ IF check_duplicate(invoices_table, runs[r].invoice_number)
          THEN runs' = [runs EXCEPT ![r] =
                          RunState("returned", runs[r].invoice_number, DUPLICATE,
                                   "Duplicate invoice: " \o runs[r].invoice_number)]
          ELSE runs' = [runs EXCEPT ![r].pc = "insert_invoice"]
       \/ \E e \in StoreErrors("check for duplicate") : RunFailed(r, e)
    /\ UNCHANGED <<shared_frame, invoices_table, audit_log_table>>

\* db.insert_invoice(...); result.status = ProcessingStatus.STORED
RunInsertInvoice(r) ==
    /\ runs[r].pc = "insert_invoice"
    /\ \/ \E failure \in InsertFailures :
          LET done == insert_invoice(invoices_table, audit_log_table, r,
                                     runs[r].invoice_number, failure)
          IN  /\ invoices_table' = done.table
              /\ audit_log_table' = done.audit
              /\ IF done.ok
                 THEN runs' = [runs EXCEPT ![r].pc = "notify_success",
                                           ![r].status = STORED]
                 ELSE RunFailed(r, done.exc[1])
       \/ \E e \in StoreErrors("insert invoice") :
            /\ RunFailed(r, e)
            /\ UNCHANGED <<invoices_table, audit_log_table>>
    /\ UNCHANGED shared_frame

\* if self._notify_success(invoice_data): result.status = NOTIFIED
RunNotifySuccess(r) ==
    /\ runs[r].pc = "notify_success"
    /\ \E o \in NotifierOutcomes :
         IF o = "ok"
         THEN runs' = [runs EXCEPT ![r].pc = "returned", ![r].status = NOTIFIED]
         ELSE IF NotifierSwallowed(o)
         THEN runs' = [runs EXCEPT ![r].pc = "returned"]
         ELSE RunFailed(r, NotifierExc(o))
    /\ UNCHANGED <<shared_frame, invoices_table, audit_log_table>>

SharedNext ==
    \E r \in RunIds :
        \/ RunCheckDuplicate(r)
        \/ RunInsertInvoice(r)
        \/ RunNotifySuccess(r)

SpecShared == SharedInit /\ [][SharedNext]_vars

\* ---------------------------------------------------------------------------
\* Properties of two concurrent runs
\* ---------------------------------------------------------------------------

\* The rows the table holds for an invoice number.
RowsFor(number) == {row \in invoices_table : row.invoice_number = number}

\* The runs whose item is reported successful.
Succeeded == {r \in RunIds : runs[r].status \in {STORED, NOTIFIED}}

\* C30: when two concurrent runs each process a valid attachment with the same
\* invoice number, the table never holds two rows for that number, at most
\* one of the two items is STORED or NOTIFIED, and once both runs are done
\* every item that is not ends DUPLICATE or FAILED, whatever the order of the
\* runs' duplicate checks and inserts.
C30_OneRowOneSuccessPerNumber ==
    (runs # <<>> /\ runs[1].invoice_number = runs[2].invoice_number) =>
        /\ Cardinality(RowsFor(runs[1].invoice_number)) <= 1
        /\ Cardinality(Succeeded) <= 1
        /\ (\A r \in RunIds : runs[r].pc = "returned") =>
              \A r \in RunIds \ Succeeded : runs[r].status \in {DUPLICATE, FAILED}

\* Both runs found no duplicate and both inserted: the first is reported
\* successful, the second is rejected by the database.
C30_Witness ==
    /\ runs # <<>>
    /\ runs[1].invoice_number = runs[2].invoice_number
    /\ \A r \in RunIds : runs[r].pc = "returned"
    /\ \E r \in RunIds :
         /\ runs[r].status = NOTIFIED
         /\ \E q \in RunIds \ {r} :
              /\ runs[q].status = FAILED
              /\ runs[q].error_message =
                    "Failed to insert invoice: UNIQUE constraint failed"

\* ---------------------------------------------------------------------------
\* Properties of run(): the mailbox
\* ---------------------------------------------------------------------------

\* C31: in dry-run mode run() writes nothing to the mailbox: no message is
\* flagged as seen, so the next run fetches the same batch.
C31_DryRunMarksNothing ==
    dry_run => seen = {}

\* The outcomes of the attachments fetched from message uid.
OutcomesOf(uid) ==
    {k \in 1..Len(results) : results[k].attachment.email_uid = uid}

\* C32: when run() has returned, a message flagged as seen has no attachment
\* whose outcome is other than STORED or NOTIFIED.
C32_MarkedOnlyIfAllAttachmentsSucceeded ==
    pc = "returned" =>
        \A uid \in seen : \A k \in OutcomesOf(uid) :
            results[k].status \in {STORED, NOTIFIED}

\* ---------------------------------------------------------------------------
\* Properties of run(): the outcome after its completion timestamp
\* ---------------------------------------------------------------------------

\* The completion timestamp of the current attachment has been set.
Completed == result.processing_completed_at # 0

\* The outcome r without its completion timestamp.
WithoutCompletion(r) == [r EXCEPT !.processing_completed_at = 0]

\* The outcomes run() has collected stay as they are.
ResultsKept ==
    \A k \in 1..Len(results) : k <= Len(results') /\ results'[k] = results[k]

\* C33: once the completion timestamp of an outcome has been set, no field of
\* the outcome changes again, the timestamp included.
C33_NothingChangesAfterCompletion ==
    [][/\ (idx' = idx /\ Completed) => result' = result
       /\ ResultsKept]_vars

\* C33, amended: once the completion timestamp of an outcome has been set, its
\* status, record, error list and message never change again; the timestamp
\* itself is assigned once more, to a reading that is not earlier, by the
\* finally block after an early return, and an outcome that run() has
\* collected is never modified.
C33_OnlyTimestampRewritten ==
    [][/\ (idx' = idx /\ Completed) =>
             /\ WithoutCompletion(result') = WithoutCompletion(result)
             /\ result'.processing_completed_at >= result.processing_completed_at
             /\ result' # result => pc = "finally"
       /\ ResultsKept]_vars

C33_Witness ==
    /\ result.status = DUPLICATE
    /\ result.processing_completed_at = 2
    /\ results # <<>>
    /\ results[Len(results)] = result

\* ---------------------------------------------------------------------------
\* Properties of the retry wrapper: how it ends
\* ---------------------------------------------------------------------------

\* wrapper propagated the error of its last invocation, which is not retryable.
PropagatedNonRetryable ==
    /\ rpc = "raised"
    /\ events # <<>>
    /\ events[Len(events)].ev = "func"
    /\ raised = events[Len(events)].exc
    /\ ~InRetryableSet(raised[1])

\* wrapper raised RetryExhaustedError.
RaisedExhausted == rpc = "raised" /\ raised[1].kind = RetryExhaustedError

\* The three ways wrapper is meant to end.
ListedExit == rpc = "returned" \/ PropagatedNonRetryable \/ RaisedExhausted

\* C34: when wrapper has returned, propagated a non-retryable error or raised
\* RetryExhaustedError, it slept one time fewer than it invoked the function,
\* and every sleep lies between two invocations.
C34_SleepsBetweenAttempts ==
    ListedExit =>
        /\ Cardinality(Sleeps) = Cardinality(Invocations) - 1
        /\ \A k \in Sleeps :
              /\ \E j \in Invocations : j < k
              /\ \E j \in Invocations : j > k

\* C35: whatever max_attempts is, wrapper invokes the function at least once
\* and ends only by returning, by propagating a non-retryable error or by
\* raising RetryExhaustedError.
C35_InvokedAtLeastOnce ==
    RetryDone => (Invocations # {} /\ ListedExit)
\* ---------------------------------------------------------------------------
\* Properties of the validator: order of the checks, repeated calls
\* ---------------------------------------------------------------------------

\* The six checks of validate(), numbered in the order validate() runs them.
ApplyCheck(i, inv, r) ==
    CASE i = 1 -> check_invoice_number_format(inv, r)
      [] i = 2 -> check_amount_range(inv, r)
      [] i = 3 -> check_po_number(inv, r)
      [] i = 4 -> check_approved_vendor(inv, r)
      [] i = 5 -> check_line_items_sum(inv, r)
      [] i = 6 -> check_date_sanity(inv, r)

\* How many times message m occurs in the list s.
Occurrences(m, s) == Cardinality({i \in 1..Len(s) : s[i] = m})

\* The lists a and b hold the same messages the same number of times.
SameMessages(a, b) ==
    \/ a = b
    \/ /\ Len(a) = Len(b)
       /\ \A m \in Range(a) : Occurrences(m, a) = Occurrences(m, b)

\* The verdicts r and v have the same flag and the same multisets of messages.
Agree(r, v) ==
    /\ r.is_valid = v.is_valid
    /\ SameMessages(r.errors, v.errors)
    /\ SameMessages(r.warnings, v.warnings)

\* A partial run of the checks: the checks run so far and the verdict they
\* have built.  Partial runs that differ only in the order of checks which
\* left the same verdict are one partial run.
Partial(done, r) == [done |-> done, r |-> r]

\* The partial runs that extend one of the partial runs in level by one
\* check, on invoice inv.
OneMoreCheck(level, inv) ==
    UNION {{Partial(x.done \cup {i}, ApplyCheck(i, inv, x.r)) :
               i \in (1..6) \ x.done} : x \in level}

\* The verdicts the six checks build on invoice inv, over all their orders.
RECURSIVE AfterChecks(_, _, _)
AfterChecks(n, level, inv) ==
    IF n = 0
    THEN {x.r : x \in level}
    ELSE AfterChecks(n - 1, OneMoreCheck(level, inv), inv)

VerdictsOfAllOrders(inv) == AfterChecks(6, {Partial({}, NewVerdict)}, inv)

\* C36: the verdict validate() returns has the validity flag and the
\* multisets of error and warning messages that the six checks yield on the
\* same invoice in any other order.
C36_CheckOrderIrrelevant ==
    vpc = "returned" =>
        \A other \in VerdictsOfAllOrders(invoice) : Agree(other, verdict)

\* A verdict with several errors that another order lists differently.
C36_Witness ==
    /\ vpc = "returned"
    /\ Len(verdict.errors) >= 3
    /\ Len(verdict.warnings) >= 1
    /\ \E other \in VerdictsOfAllOrders(invoice) : other.errors # verdict.errors

\* What validate() reads: the validator's reference sets and the invoice.
ValidateReads == <<invoice, valid_po_numbers, approved_vendors>>

ExtractionFailed(text) ==
    ppc = "raised" /\ perr = <<Exc(PDFExtractionError, text)>>

StoredEvents ==
    {e \in audit_log_table : e.event_type = "invoice_stored"}

\* C39: after any number of insert_invoice calls, returned or failed, the
\* invoice row of a call exists exactly when its 'invoice_stored' audit event
\* exists, so there are as many invoice rows as 'invoice_stored' events.
C39_RowAndAuditEventTogether ==
    /\ \A row \in invoices_table :
          AuditEvent(row.id, row.invoice_number, "invoice_stored") \in StoredEvents
    /\ \A e \in StoredEvents : Row(e.id, e.invoice_number) \in invoices_table
    /\ Cardinality(invoices_table) = Cardinality(StoredEvents)

\* One call failed at its audit event and left no row, another one stored its
\* invoice.
C39_Witness ==
    /\ runs # <<>>
    /\ \E r \in RunIds :
         /\ runs[r].status = FAILED
         /\ runs[r].error_message =
               "Failed to insert invoice: invoice_audit_log failed"
         /\ RowsFor(runs[r].invoice_number) = {}
         /\ \E q \in RunIds \ {r} :
              /\ runs[q].status = NOTIFIED
              /\ Row(q, runs[q].invoice_number) \in invoices_table

\* ---------------------------------------------------------------------------
\* Properties of main(): the exit code
\* ---------------------------------------------------------------------------

\* C40: main() returns 0 when run() returned, whatever the outcomes of the
\* items, and 1 when run() raised, and no other code.
C40_ExitCodeFollowsRun ==
    exit_code # <<>> =>
        /\ pc = "returned" => exit_code = <<0>>
        /\ pc = "raised" => exit_code = <<1>>
        /\ pc \in {"returned", "raised"}

\* Exit code 0 after a run in which both items failed.
C40_Witness ==
    /\ exit_code = <<0>>
    /\ Len(results) = 2
    /\ \A k \in 1..Len(results) : results[k].status = FAILED

\* Exit code 1 after run() raised while outcomes had been collected.
C40_RaisedSeen ==
    exit_code = <<1>> /\ pc = "raised"

====
